---- MODULE Spec2Model ----
(***************************************************************************)
(* Model of the DICOM intake / volume construction code (DicomProcessor,   *)
(* relevance_checker.py) and of the LangGraph analysis workflow            *)
(* (the_nodes.py) of radio_assistance.                                     *)
(*                                                                         *)
(* Conventions.  A python value that may be None is an "option": None is   *)
(* the empty tuple and a present value x is the one-element tuple <<x>>.   *)
(* A python dict is a TLA+ function whose domain is the set of its keys.   *)
(* Real numbers are exact rationals: a value of a normalised volume is a   *)
(* pair <<num, den>> with den > 0, or NaN.                                 *)
(***************************************************************************)
EXTENDS Integers, Sequences, FiniteSets, TLC

None == <<>>
Some(x) == <<x>>

\* a formatted message: its fixed text and the value interpolated into it
\* (0 when the text interpolates nothing the model distinguishes)
Msg(text, arg) == <<text, arg>>

\* the sequences of at most n elements of kinds
Kinds(n, kinds) == UNION { [1..m -> kinds] : m \in 0..n }

Min(S) == CHOOSE x \in S : \A y \in S : x <= y
Max(S) == CHOOSE x \in S : \A y \in S : x >= y

(***************************************************************************)
(* Bounds of the model.                                                    *)
(***************************************************************************)
MaxFiles == 6          \* longest study (list of slice locators) explored
MaxIntake == 3         \* longest study with freely mixed modality tags
MaxSort == 4           \* longest series with freely chosen slice positions
MaxCallers == 2         \* threads calling get_ct_mri_presenter at once
MaxRequests == 6        \* login requests of one run
MaxTicks == 3           \* clock advances of TickSeconds of one run
MaxDocs == 2            \* most documents a retrieval returns
MaxDepth == 2          \* deepest volume with freely chosen voxel values

(***************************************************************************)
(* Program constants.                                                      *)
(***************************************************************************)
approved_modality == {"CR", "DX", "CT", "MR"}

MinSlices == 5

CT_WINDOWS ==
  [lung |-> <<-600, 1500>>, bone |-> <<400, 1800>>, soft_tissue |-> <<40, 400>>,
   brain |-> <<40, 80>>, liver |-> <<60, 150>>, mediastinum |-> <<40, 350>>,
   abdomen |-> <<40, 400>>]

BODY_PART_TO_WINDOW ==
  [CHEST |-> "lung", LUNG |-> "lung", THORAX |-> "lung", HEAD |-> "brain",
   BRAIN |-> "brain", SKULL |-> "bone", SPINE |-> "bone", CSPINE |-> "bone",
   TSPINE |-> "bone", LSPINE |-> "bone", PELVIS |-> "soft_tissue",
   ABDOMEN |-> "abdomen", LIVER |-> "liver", KIDNEY |-> "abdomen",
   EXTREMITY |-> "bone", LEG |-> "bone", ARM |-> "bone", HAND |-> "bone",
   FOOT |-> "bone", KNEE |-> "bone", HIP |-> "bone", SHOULDER |-> "bone"]

(***************************************************************************)
(* A slice locator is modelled by what pydicom finds behind it: `read` is  *)
(* "ok", "invalid" (dcmread raises InvalidDicomError) or "error" (dcmread  *)
(* raises something else); every DICOM tag is an option; PixelData is      *)
(* "present", "absent" (no PixelData element) or "corrupt" (pixel_array    *)
(* raises); pixel_array is the flattened pixel grid, its length standing   *)
(* for its shape.  A multi-valued WindowCenter/WindowWidth is a tuple of   *)
(* two or more numbers, a scalar one a tuple of one number, tagged with    *)
(* `multi`.                                                                *)
(***************************************************************************)
Scalar(v) == [multi |-> FALSE, vals |-> <<v>>]
Multi(vs) == [multi |-> TRUE, vals |-> vs]

Slice(mod) ==
  [read |-> "ok", Modality |-> Some(mod), SeriesInstanceUID |-> Some("1.2.840.1"),
   PixelData |-> "present", pixel_array |-> <<0, 100>>,
   RescaleSlope |-> None, RescaleIntercept |-> None,
   PhotometricInterpretation |-> None,
   ImagePositionPatient |-> None, SliceLocation |-> None, InstanceNumber |-> None,
   WindowCenter |-> None, WindowWidth |-> None,
   BodyPartExamined |-> None, StudyDescription |-> None, SeriesDescription |-> None,
   PatientName |-> None, AdmittingDiagnosesDescription |-> None,
   PatientAge |-> None, StudyID |-> None]

\* getattr(dataset, tag, default)
Getattr(d, tag, default) == IF d[tag] = None THEN default ELSE d[tag][1]

\* hasattr(dataset, tag)
Hasattr(d, tag) == d[tag] # None

\* dict.get(key), None when the key is missing
Get(s, key) == IF key \in DOMAIN s THEN s[key] ELSE None

\* str.upper() on the strings of the model
StrUpper(s) ==
  CASE s = "ct" -> "CT"
    [] s = "mr" -> "MR"
    [] s = "cr" -> "CR"
    [] s = "Chest" -> "CHEST"
    [] s = " chest " -> " CHEST "
    [] s = "Chest ct" -> "CHEST CT"
    [] s = "brain mri" -> "BRAIN MRI"
    [] OTHER -> s

\* index of the first locator that dcmread cannot read, 0 when all are readable
FirstUnreadable(paths) ==
  LET bad == {i \in 1..Len(paths) : paths[i].read # "ok"}
  IN IF bad = {} THEN 0 ELSE Min(bad)

\* ModalityRelevance judging the study by the tag of its first slice only
ModalityRelevance_first_only(paths) ==
  LET bad == FirstUnreadable(paths)
  IN IF bad # 0
     THEN IF paths[bad].read = "invalid"
          THEN [is_relevant |-> FALSE, error |-> Msg("Invalid DICOM file", 0)]
          ELSE [is_relevant |-> FALSE, error |-> Msg("Error reading DICOM: {e}", 0)]
     ELSE IF Len(paths) = 0 \/ paths[1].Modality = None
          THEN [is_relevant |-> FALSE, modality |-> "MIXED"]
          ELSE LET unique == paths[1].Modality[1]
               IN IF StrUpper(unique) \in approved_modality
                  THEN [is_relevant |-> TRUE, modality |-> unique]
                  ELSE [is_relevant |-> FALSE, modality |-> "MIXED"]

(***************************************************************************)
(* DicomProcessor.ModalityRelevance                                        *)
(***************************************************************************)
ModalityRelevance(paths) ==
  LET bad == FirstUnreadable(paths)
      modality_set == [i \in 1..Len(paths) |-> paths[i].Modality]
      unique_modality == {modality_set[i] : i \in 1..Len(paths)}
  IN IF bad # 0
     THEN IF paths[bad].read = "invalid"
          THEN [is_relevant |-> FALSE, error |-> Msg("Invalid DICOM file", 0)]
          ELSE [is_relevant |-> FALSE, error |-> Msg("Error reading DICOM: {e}", 0)]
     ELSE IF Cardinality(unique_modality) # 1 \/ None \in unique_modality
          THEN [is_relevant |-> FALSE, modality |-> "MIXED"]
          ELSE LET unique == (CHOOSE m \in unique_modality : TRUE)[1]
               IN IF StrUpper(unique) \in approved_modality
                  THEN [is_relevant |-> TRUE, modality |-> unique]
                  ELSE [is_relevant |-> FALSE, modality |-> "MIXED"]

(***************************************************************************)
(* DicomProcessor.ExtractMetadata: str() of four tags of the first locator *)
(* (str(None) is "None").  dcmread is not guarded: an unreadable first     *)
(* locator raises.                                                         *)
(***************************************************************************)
ExtractMetadata(paths) ==
  IF Len(paths) = 0 \/ paths[1].read # "ok"
  THEN [raised |-> TRUE]
  ELSE [raised |-> FALSE,
        dict |-> [dicom_metadata |->
                   [patient_name |-> Getattr(paths[1], "PatientName", "None"),
                    diagnosis |-> Getattr(paths[1], "AdmittingDiagnosesDescription", "None"),
                    patient_age |-> Getattr(paths[1], "PatientAge", "None"),
                    study_id |-> Getattr(paths[1], "StudyID", "None")]]]

\* guardrail without its check for a missing SeriesInstanceUID
guardrail_no_missing_uid_check(paths) ==
  LET slice_count == Len(paths)
      bad == FirstUnreadable(paths)
      unique_uids == {paths[i].SeriesInstanceUID : i \in 1..Len(paths)}
  IN IF slice_count < MinSlices
     THEN [is_relevant |-> FALSE,
           stop_reason |-> Msg("Insufficient slices for 3D analysis. Got {slice_count}, need at least 5.",
                               slice_count)]
     ELSE IF bad # 0
     THEN [is_relevant |-> FALSE, stop_reason |-> Msg("Error reading DICOM metadata: {e}", 0)]
     ELSE IF Cardinality(unique_uids) # 1
     THEN [is_relevant |-> FALSE,
           stop_reason |-> Msg("Multiple series detected ({n}). Please upload slices from a single series.",
                               Cardinality(unique_uids))]
     ELSE [is_relevant |-> TRUE, slice_count |-> slice_count]

(***************************************************************************)
(* DicomProcessor.guardrail                                                *)
(***************************************************************************)
guardrail(paths) ==
  LET slice_count == Len(paths)
      bad == FirstUnreadable(paths)
      unique_uids == {paths[i].SeriesInstanceUID : i \in 1..Len(paths)}
  IN IF slice_count < MinSlices
     THEN [is_relevant |-> FALSE,
           stop_reason |-> Msg("Insufficient slices for 3D analysis. Got {slice_count}, need at least 5.",
                               slice_count)]
     ELSE IF bad # 0
     THEN [is_relevant |-> FALSE, stop_reason |-> Msg("Error reading DICOM metadata: {e}", 0)]
     ELSE IF None \in unique_uids
     THEN [is_relevant |-> FALSE,
           stop_reason |-> Msg("Missing SeriesInstanceUID in one or more DICOM files.", 0)]
     ELSE IF Cardinality(unique_uids) # 1
     THEN [is_relevant |-> FALSE,
           stop_reason |-> Msg("Multiple series detected ({n}). Please upload slices from a single series.",
                               Cardinality(unique_uids))]
     ELSE [is_relevant |-> TRUE, slice_count |-> slice_count]

\* str.strip() on the strings of the model
StrStrip(s) == IF s = " CHEST " THEN "CHEST" ELSE s

\* the keywords of ExtractCTWindowSettings that occur as substrings of an
\* (upper-cased) description of the model
KeywordsIn(s) ==
  CASE s = "CHEST CT" -> {"CHEST"}
    [] s = "BRAIN MRI" -> {"BRAIN"}
    [] s = "HEPATIC ABDOMINAL" -> {"HEPATIC", "ABDOMINAL"}
    [] s = "FRACTURE HEAD" -> {"FRACTURE", "HEAD"}
    [] s = "ABDOMEN" -> {"ABDOMEN"}
    [] OTHER -> {}

(***************************************************************************)
(* DicomProcessor.ExtractCTWindowSettings, on the first locator.  float()  *)
(* of a multi-valued tag and [0] of a scalar one raise TypeError, which    *)
(* the function does not catch.                                            *)
(***************************************************************************)
ExtractCTWindowSettings(paths) ==
  IF Len(paths) = 0 THEN [raised |-> TRUE]
  ELSE IF paths[1].read # "ok"
  THEN [raised |-> FALSE, dict |-> [error |-> Msg("Could not read DICOM: {e}", 0)]]
  ELSE
  LET dcm == paths[1]
      window_center == dcm.WindowCenter
      window_width == dcm.WindowWidth
      both == window_center # None /\ window_width # None
      type_error == both /\ window_center[1].multi # window_width[1].multi
      dicom_window ==
        IF both THEN Some(<<window_center[1].vals[1], window_width[1].vals[1]>>) ELSE None
      raw_body_part == dcm.BodyPartExamined
      \* `if body_part:` is false for a missing tag and for the empty string
      body_part ==
        IF raw_body_part # None /\ raw_body_part[1] # ""
        THEN Some(StrStrip(StrUpper(raw_body_part[1])))
        ELSE raw_body_part
      study_desc == Getattr(dcm, "StudyDescription", "")
      series_desc == Getattr(dcm, "SeriesDescription", "")
      description == KeywordsIn(StrUpper(study_desc)) \cup KeywordsIn(StrUpper(series_desc))
      any(kws) == kws \cap description # {}
      suggested_window ==
        IF body_part # None /\ body_part[1] # "" /\ body_part[1] \in DOMAIN BODY_PART_TO_WINDOW
        THEN BODY_PART_TO_WINDOW[body_part[1]]
        ELSE IF any({"LUNG", "CHEST", "THORAX", "PULMONARY"}) THEN "lung"
        ELSE IF any({"BRAIN", "HEAD", "CRANIAL"}) THEN "brain"
        ELSE IF any({"BONE", "SPINE", "SKELETAL", "FRACTURE"}) THEN "bone"
        ELSE IF any({"LIVER", "HEPATIC"}) THEN "liver"
        ELSE IF any({"ABDOMEN", "ABDOMINAL"}) THEN "abdomen"
        ELSE "soft_tissue"
  IN IF type_error THEN [raised |-> TRUE]
     ELSE [raised |-> FALSE,
           dict |-> [dicom_window |-> dicom_window, body_part |-> body_part,
                     suggested_window |-> Some(suggested_window),
                     study_description |-> <<study_desc, series_desc>>]]

(***************************************************************************)
(* Exact arithmetic.  A rational is <<num, den>> with den > 0; division by *)
(* zero gives what IEEE floats give: <<0,0>> is NaN, <<1,0>> and <<-1,0>>  *)
(* are the infinities.                                                     *)
(***************************************************************************)
NaN == <<0, 0>>

Sign(n) == IF n > 0 THEN 1 ELSE IF n < 0 THEN -1 ELSE 0

Div(num, den) ==
  IF den > 0 THEN <<num, den>>
  ELSE IF den < 0 THEN <<-num, -den>>
  ELSE <<Sign(num), 0>>

IsFinite(r) == r[2] > 0
RatEq(a, b) == IsFinite(a) /\ IsFinite(b) /\ a[1] * b[2] = b[1] * a[2]
RatLe(a, b) == IsFinite(a) /\ IsFinite(b) /\ a[1] * b[2] <= b[1] * a[2]
InUnitInterval(r) == IsFinite(r) /\ 0 <= r[1] /\ r[1] <= r[2]

\* numpy.clip(x, a_min, a_max) = minimum(maximum(x, a_min), a_max)
NpClip(x, a_min, a_max) ==
  LET m == IF x >= a_min THEN x ELSE a_min
  IN IF m <= a_max THEN m ELSE a_max

\* the concatenation of the rows of a volume (numpy flattening)
RECURSIVE Flatten(_)
Flatten(volume) ==
  IF volume = <<>> THEN <<>> ELSE Head(volume) \o Flatten(Tail(volume))

\* insertion that puts x before the elements of equal key: the sort it gives
\* reverses the input order of equal keys
RECURSIVE InsertByKey_before_equal(_, _)
InsertByKey_before_equal(x, sorted) ==
  IF sorted = <<>> THEN <<x>>
  ELSE IF x[1] <= Head(sorted)[1]
       THEN <<x>> \o sorted
       ELSE <<Head(sorted)>> \o InsertByKey_before_equal(x, Tail(sorted))

\* list.sort(key=lambda x: x[0]) on a list of tuples: a stable sort, modelled
\* as insertion of each element after every element whose key is not greater
RECURSIVE InsertByKey(_, _)
InsertByKey(x, sorted) ==
  IF sorted = <<>> THEN <<x>>
  ELSE IF x[1] < Head(sorted)[1]
       THEN <<x>> \o sorted
       ELSE <<Head(sorted)>> \o InsertByKey(x, Tail(sorted))

RECURSIVE SortByKey(_)
SortByKey(list) ==
  IF list = <<>> THEN <<>>
  ELSE InsertByKey(list[Len(list)], SortByKey(SubSeq(list, 1, Len(list) - 1)))

\* the values of a list of numbers in non-decreasing order (numpy sorts the
\* flattened array to take a percentile)
SortValues(values) ==
  LET sorted == SortByKey([i \in 1..Len(values) |-> <<values[i]>>])
  IN [i \in 1..Len(values) |-> sorted[i][1]]

\* 100 * numpy.percentile(values, q), linear interpolation between the two
\* nearest ranks; q is a whole number of percent in 0..100
Percentile100(values, q) ==
  LET a == SortValues(values)
      n == Len(a)
      i == (q * (n - 1)) \div 100
      r == (q * (n - 1)) % 100
  IN IF r = 0 THEN 100 * a[i + 1]
     ELSE 100 * a[i + 1] + r * (a[i + 2] - a[i + 1])

(***************************************************************************)
(* The read loop shared by Image_extractor and Image_extractor_3D: the     *)
(* error dict of the first locator that cannot be read, has no PixelData   *)
(* element or whose pixel_array cannot be decoded; None when all decode.   *)
(***************************************************************************)
SliceReadError(dcm, i) ==
  IF dcm.read = "invalid"
  THEN Some(Msg("Invalid DICOM file. Cannot read image pixels.", 0))
  ELSE IF dcm.read # "ok"
  THEN Some(Msg("Unexpected error while reading DICOM image: {e}", 0))
  ELSE IF dcm.PixelData = "absent"
  THEN Some(Msg("DICOM file has no pixel data: {path}", i))
  ELSE IF dcm.PixelData # "present"
  THEN Some(Msg("Unexpected error while reading DICOM image: {e}", 0))
  ELSE None

ReadLoopError(paths) ==
  LET bad == {i \in 1..Len(paths) : SliceReadError(paths[i], i) # None}
  IN IF bad = {} THEN None ELSE SliceReadError(paths[Min(bad)], Min(bad))

\* numpy float -> uint8 cast of value * 255 (truncation); the cast of a NaN or
\* an infinity is undefined and gives nan_cast
AsUint8(r, nan_cast) ==
  IF ~IsFinite(r) THEN nan_cast ELSE ((255 * r[1]) \div r[2]) % 256

\* PIL resize of one slice to (target_size, target_size); the model's grids
\* already have the target size, for which the resize returns the grid
ResizeBilinear(grid) == grid

(***************************************************************************)
(* DicomProcessor.Image_extractor (planar path): one tensor per slice.     *)
(***************************************************************************)
ImageNetMean == <<485, 456, 406>>     \* thousandths
ImageNetStd == <<229, 224, 225>>      \* thousandths

PlanarTensor(dcm, nan_cast) ==
  LET slope == Getattr(dcm, "RescaleSlope", 1)
      intercept == Getattr(dcm, "RescaleIntercept", 0)
      raw == dcm.pixel_array
      scaled == [k \in 1..Len(raw) |-> raw[k] * slope + intercept]
      photometric == Getattr(dcm, "PhotometricInterpretation", "MONOCHROME2")
      top == Max({scaled[k] : k \in 1..Len(scaled)})
      pixels == IF photometric = "MONOCHROME1"
                THEN [k \in 1..Len(scaled) |-> top - scaled[k]]
                ELSE scaled
      p1 == Percentile100(pixels, 1)
      p99 == Percentile100(pixels, 99)
      pixel_norm == [k \in 1..Len(pixels) |->
                      IF p99 > p1
                      THEN Div(NpClip(100 * pixels[k] - p1, 0, p99 - p1), p99 - p1)
                      ELSE <<0, 1>>]
      pixels_uint8 == ResizeBilinear([k \in 1..Len(pixels) |-> AsUint8(pixel_norm[k], nan_cast)])
  IN \* ToTensor divides by 255, Normalize subtracts the mean and divides by the std
     [c \in 1..3 |-> [k \in 1..Len(pixels) |->
        Div(1000 * pixels_uint8[k] - 255 * ImageNetMean[c], 255 * ImageNetStd[c])]]

\* Image_extractor taking the photometric interpretation of every slice from
\* the first slice of the batch
Image_extractor_photometric_of_first(paths, nan_cast) ==
  IF ReadLoopError(paths) # None
  THEN [error |-> ReadLoopError(paths)[1]]
  ELSE [image_tensor |->
          Some([i \in 1..Len(paths) |->
                  PlanarTensor([paths[i] EXCEPT !.PhotometricInterpretation =
                                                   paths[1].PhotometricInterpretation],
                               nan_cast)])]

Image_extractor(paths, nan_cast) ==
  IF ReadLoopError(paths) # None
  THEN [error |-> ReadLoopError(paths)[1]]
  ELSE [image_tensor |-> Some([i \in 1..Len(paths) |-> PlanarTensor(paths[i], nan_cast)])]

(***************************************************************************)
(* DicomProcessor._apply_ct_window.  Centre and width are whole numbers,   *)
(* so the window bounds are computed doubled (2*min_hu, 2*max_hu).         *)
(***************************************************************************)
_apply_ct_window(volume, window_center, window_width) ==
  LET min_hu2 == 2 * window_center - window_width
      max_hu2 == 2 * window_center + window_width
  IN [d \in 1..Len(volume) |-> [k \in 1..Len(volume[d]) |->
        Div(NpClip(2 * volume[d][k], min_hu2, max_hu2) - min_hu2, max_hu2 - min_hu2)]]

(***************************************************************************)
(* DicomProcessor._apply_mri_normalization; percentiles are taken over the *)
(* whole volume and computed times 100.                                    *)
(***************************************************************************)
\* MRI normalisation dividing by the upper percentile value instead of the
\* distance between the two percentile values
_apply_mri_normalization_by_upper(volume, lower_percentile, upper_percentile) ==
  LET p_low == Percentile100(Flatten(volume), lower_percentile)
      p_high == Percentile100(Flatten(volume), upper_percentile)
  IN [d \in 1..Len(volume) |-> [k \in 1..Len(volume[d]) |->
        IF p_high > p_low
        THEN Div(NpClip(100 * volume[d][k], p_low, p_high) - p_low, p_high)
        ELSE <<0, 1>>]]

_apply_mri_normalization(volume, lower_percentile, upper_percentile) ==
  LET p_low == Percentile100(Flatten(volume), lower_percentile)
      p_high == Percentile100(Flatten(volume), upper_percentile)
  IN [d \in 1..Len(volume) |-> [k \in 1..Len(volume[d]) |->
        IF p_high > p_low
        THEN Div(NpClip(100 * volume[d][k], p_low, p_high) - p_low, p_high - p_low)
        ELSE <<0, 1>>]]

\* the min-max fallback of Image_extractor_3D for any other modality
MinMaxNormalization(volume) ==
  LET flat == Flatten(volume)
      min_val == Min({flat[k] : k \in 1..Len(flat)})
      max_val == Max({flat[k] : k \in 1..Len(flat)})
  IN [d \in 1..Len(volume) |-> [k \in 1..Len(volume[d]) |->
        IF max_val > min_val
        THEN Div(volume[d][k] - min_val, max_val - min_val)
        ELSE <<0, 1>>]]

(***************************************************************************)
(* The ordering key of a slice (arrival is the number of slices already    *)
(* collected) and the sorted list slices_data.  Each entry carries, third, *)
(* the arrival index of its slice: the sort looks at the key only.         *)
(***************************************************************************)
\* the ordering key with the instance number preferred to the slice location
slice_position_instance_first(dcm, arrival) ==
  IF Hasattr(dcm, "ImagePositionPatient") THEN dcm.ImagePositionPatient[1]
  ELSE IF Hasattr(dcm, "InstanceNumber") THEN dcm.InstanceNumber[1]
  ELSE IF Hasattr(dcm, "SliceLocation") THEN dcm.SliceLocation[1]
  ELSE arrival

slice_position(dcm, arrival) ==
  IF Hasattr(dcm, "ImagePositionPatient") THEN dcm.ImagePositionPatient[1]
  ELSE IF Hasattr(dcm, "SliceLocation") THEN dcm.SliceLocation[1]
  ELSE IF Hasattr(dcm, "InstanceNumber") THEN dcm.InstanceNumber[1]
  ELSE arrival

slices_data(paths) ==
  SortByKey([i \in 1..Len(paths) |->
              <<slice_position(paths[i], i - 1), paths[i].pixel_array, i>>])

\* the window choice with the named preset tested before the custom window
SelectWindow_preset_first(window_settings, ct_window, custom_window, auto_window) ==
  LET get(key) == Get(window_settings.dict, key)
      preset(type, name) ==
        [type |-> type, name |-> name,
         center |-> CT_WINDOWS[name][1], width |-> CT_WINDOWS[name][2]]
  IN IF ct_window # None /\ ct_window[1] \in DOMAIN CT_WINDOWS
     THEN [raised |-> FALSE, window_used |-> preset("preset", ct_window[1])]
     ELSE IF custom_window # None
     THEN [raised |-> FALSE,
           window_used |-> [type |-> "custom", center |-> custom_window[1][1],
                            width |-> custom_window[1][2]]]
     ELSE IF auto_window
     THEN IF window_settings.raised THEN [raised |-> TRUE]
          ELSE IF get("dicom_window") # None
          THEN [raised |-> FALSE,
                window_used |-> [type |-> "dicom", center |-> get("dicom_window")[1][1],
                                 width |-> get("dicom_window")[1][2],
                                 body_part |-> get("body_part")]]
          ELSE IF get("suggested_window") # None
          THEN [raised |-> FALSE,
                window_used |-> [type |-> "inferred", name |-> get("suggested_window")[1],
                                 center |-> CT_WINDOWS[get("suggested_window")[1]][1],
                                 width |-> CT_WINDOWS[get("suggested_window")[1]][2],
                                 body_part |-> get("body_part")]]
          ELSE [raised |-> FALSE, window_used |-> preset("default", "soft_tissue")]
     ELSE [raised |-> FALSE, window_used |-> preset("default", "soft_tissue")]

(***************************************************************************)
(* The window chosen on the CT branch of Image_extractor_3D;               *)
(* window_settings is what self.ExtractCTWindowSettings() gives, looked at *)
(* on the auto_window branch only.                                         *)
(***************************************************************************)
SelectWindow(window_settings, ct_window, custom_window, auto_window) ==
  LET get(key) == Get(window_settings.dict, key)
      preset(type, name) ==
        [type |-> type, name |-> name,
         center |-> CT_WINDOWS[name][1], width |-> CT_WINDOWS[name][2]]
  IN IF custom_window # None
     THEN [raised |-> FALSE,
           window_used |-> [type |-> "custom", center |-> custom_window[1][1],
                            width |-> custom_window[1][2]]]
     ELSE IF ct_window # None /\ ct_window[1] \in DOMAIN CT_WINDOWS
     THEN [raised |-> FALSE, window_used |-> preset("preset", ct_window[1])]
     ELSE IF auto_window
     THEN IF window_settings.raised THEN [raised |-> TRUE]
          ELSE IF get("dicom_window") # None
          THEN [raised |-> FALSE,
                window_used |-> [type |-> "dicom", center |-> get("dicom_window")[1][1],
                                 width |-> get("dicom_window")[1][2],
                                 body_part |-> get("body_part")]]
          ELSE IF get("suggested_window") # None
          THEN [raised |-> FALSE,
                window_used |-> [type |-> "inferred", name |-> get("suggested_window")[1],
                                 center |-> CT_WINDOWS[get("suggested_window")[1]][1],
                                 width |-> CT_WINDOWS[get("suggested_window")[1]][2],
                                 body_part |-> get("body_part")]]
          ELSE [raised |-> FALSE, window_used |-> preset("default", "soft_tissue")]
     ELSE [raised |-> FALSE, window_used |-> preset("default", "soft_tissue")]

\* interpolation with the weights of the two neighbouring slices exchanged
DepthInterp_weights_swapped(profile, target_depth) ==
  LET current_depth == Len(profile)
  IN [j \in 1..target_depth |->
       IF target_depth = 1 \/ current_depth = 1 THEN <<profile[1], 255>>
       ELSE LET i == ((j - 1) * (current_depth - 1)) \div (target_depth - 1)
                rem == ((j - 1) * (current_depth - 1)) % (target_depth - 1)
            IN IF rem = 0 THEN <<profile[i + 1] * (target_depth - 1), 255 * (target_depth - 1)>>
               ELSE <<profile[i + 2] * (target_depth - 1)
                        + (profile[i + 1] - profile[i + 2]) * rem,
                      255 * (target_depth - 1)>>]

\* numpy.interp of one depth profile at target_depth evenly spaced positions of
\* 0..current_depth-1; profile values are numerators over 255
DepthInterp(profile, target_depth) ==
  LET current_depth == Len(profile)
  IN [j \in 1..target_depth |->
       IF target_depth = 1 \/ current_depth = 1 THEN <<profile[1], 255>>
       ELSE LET i == ((j - 1) * (current_depth - 1)) \div (target_depth - 1)
                rem == ((j - 1) * (current_depth - 1)) % (target_depth - 1)
            IN IF rem = 0 THEN <<profile[i + 1] * (target_depth - 1), 255 * (target_depth - 1)>>
               ELSE <<profile[i + 1] * (target_depth - 1)
                        + (profile[i + 2] - profile[i + 1]) * rem,
                      255 * (target_depth - 1)>>]

(***************************************************************************)
(* DicomProcessor.Image_extractor_3D.  The result is                       *)
(*   [raised |-> TRUE]                 an exception leaves the function,   *)
(*   [raised |-> FALSE, dict |-> d]    it returns the dict d;              *)
(* when it gets as far as the intensity mapping, `locals` holds the values *)
(* of its local variables (order: arrival indices in stacked order).       *)
(* The steps of the function are operators applied one after the other,    *)
(* each taking the locals computed so far.                                 *)
(***************************************************************************)
target_depth_default == 64

\* lines 432-444: final standardisation (x - 0.5) / 0.5 and the result dict
EmitVolume(order, volume, modality, window_used, volume_normalized, volume_resized, volume_resampled) ==
  LET volume_final ==
        [d \in 1..Len(volume_resampled) |-> [k \in 1..Len(volume_resampled[d]) |->
           Div(2 * volume_resampled[d][k][1] - volume_resampled[d][k][2],
               volume_resampled[d][k][2])]]
      result == [volume_tensor |-> Some(volume_final), modality |-> modality]
  IN [raised |-> FALSE,
      dict |-> IF window_used # None
               THEN result @@ [window_used |-> window_used[1]]
               ELSE result,
      locals |-> [order |-> order, volume |-> volume, window_used |-> window_used,
                  volume_normalized |-> volume_normalized,
                  volume_resized |-> volume_resized,
                  volume_resampled |-> volume_resampled]]

\* depth resampling that blends every slice with the one after it when the
\* depth already matches
DepthResample_blend_at_equal_depth(volume_resized, target_depth) ==
  IF Len(volume_resized) # target_depth
  THEN [j \in 1..target_depth |-> [k \in 1..Len(volume_resized[1]) |->
          DepthInterp([d \in 1..Len(volume_resized) |-> volume_resized[d][k]], target_depth)[j]]]
  ELSE [d \in 1..Len(volume_resized) |-> [k \in 1..Len(volume_resized[d]) |->
          <<volume_resized[d][k] + volume_resized[Min({d + 1, Len(volume_resized)})][k], 510>>]]

\* lines 415-430: depth resampling; values of volume_resized are numerators
\* over 255
DepthResample(volume_resized, target_depth) ==
  IF Len(volume_resized) # target_depth
  THEN [j \in 1..target_depth |-> [k \in 1..Len(volume_resized[1]) |->
          DepthInterp([d \in 1..Len(volume_resized) |-> volume_resized[d][k]], target_depth)[j]]]
  ELSE [d \in 1..Len(volume_resized) |-> [k \in 1..Len(volume_resized[d]) |->
          <<volume_resized[d][k], 255>>]]

\* lines 407-413: every slice to uint8, resized
SpatialResize(volume_normalized, nan_cast) ==
  [d \in 1..Len(volume_normalized) |->
     ResizeBilinear([k \in 1..Len(volume_normalized[d]) |->
                       AsUint8(volume_normalized[d][k], nan_cast)])]

ResizeAndEmit(order, volume, modality, window_used, volume_normalized, volume_resized, target_depth) ==
  EmitVolume(order, volume, modality, window_used, volume_normalized, volume_resized,
             DepthResample(volume_resized, target_depth))

NormalizeAndEmit(order, volume, modality, window_used, volume_normalized, target_depth, nan_cast) ==
  ResizeAndEmit(order, volume, modality, window_used, volume_normalized,
                SpatialResize(volume_normalized, nan_cast), target_depth)

\* line 354: raw values to Hounsfield units
ToHounsfield(volume, rescale_slope, rescale_intercept) ==
  [d \in 1..Len(volume) |-> [k \in 1..Len(volume[d]) |->
     volume[d][k] * rescale_slope + rescale_intercept]]

\* lines 352-387: the CT branch, window being what SelectWindow gives
WindowAndEmit(order, volume, volume_hu, window, target_depth, nan_cast) ==
  IF window.raised THEN [raised |-> TRUE]
  ELSE NormalizeAndEmit(order, volume, "CT", Some(window.window_used),
                        _apply_ct_window(volume_hu, window.window_used.center,
                                         window.window_used.width),
                        target_depth, nan_cast)

\* the intensity mapping with the rescale tags of the first slice of the
\* sorted stack instead of the first slice read
MapIntensity_rescale_of_first_stacked(paths, order, volume, detected_modality, target_depth, ct_window, custom_window, mri_percentiles, auto_window, nan_cast) ==
  IF detected_modality = "CT"
  THEN WindowAndEmit(order, volume,
                     ToHounsfield(volume, Getattr(paths[order[1]], "RescaleSlope", 1),
                                  Getattr(paths[order[1]], "RescaleIntercept", 0)),
                     SelectWindow(ExtractCTWindowSettings(paths), ct_window,
                                  custom_window, auto_window),
                     target_depth, nan_cast)
  ELSE IF detected_modality = "MR"
  THEN IF mri_percentiles[1] \notin 0..100 \/ mri_percentiles[2] \notin 0..100
       THEN [raised |-> TRUE]
       ELSE NormalizeAndEmit(order, volume, detected_modality, None,
                             _apply_mri_normalization(volume, mri_percentiles[1],
                                                      mri_percentiles[2]),
                             target_depth, nan_cast)
  ELSE NormalizeAndEmit(order, volume, detected_modality, None,
                        MinMaxNormalization(volume), target_depth, nan_cast)

\* lines 350-403: the modality-specific intensity mapping
MapIntensity(paths, order, volume, detected_modality, target_depth, ct_window, custom_window, mri_percentiles, auto_window, nan_cast) ==
  IF detected_modality = "CT"
  THEN WindowAndEmit(order, volume,
                     ToHounsfield(volume, Getattr(paths[1], "RescaleSlope", 1),
                                  Getattr(paths[1], "RescaleIntercept", 0)),
                     SelectWindow(ExtractCTWindowSettings(paths), ct_window,
                                  custom_window, auto_window),
                     target_depth, nan_cast)
  ELSE IF detected_modality = "MR"
  THEN \* numpy.percentile raises for a percentile outside [0, 100]
       IF mri_percentiles[1] \notin 0..100 \/ mri_percentiles[2] \notin 0..100
       THEN [raised |-> TRUE]
       ELSE NormalizeAndEmit(order, volume, detected_modality, None,
                             _apply_mri_normalization(volume, mri_percentiles[1],
                                                      mri_percentiles[2]),
                             target_depth, nan_cast)
  ELSE NormalizeAndEmit(order, volume, detected_modality, None,
                        MinMaxNormalization(volume), target_depth, nan_cast)

\* lines 343-348: the sorted slices stacked; numpy.stack raises on an empty
\* list and on arrays of different shapes
StackAndMap(paths, sorted, target_depth, ct_window, custom_window, mri_percentiles, auto_window, nan_cast) ==
  IF Len(sorted) = 0 \/ \E i \in 1..Len(sorted) : Len(sorted[i][2]) # Len(sorted[1][2])
  THEN [raised |-> TRUE]
  ELSE MapIntensity(paths, [i \in 1..Len(sorted) |-> sorted[i][3]],
                    [i \in 1..Len(sorted) |-> sorted[i][2]],
                    Getattr(paths[1], "Modality", "UNKNOWN"),
                    target_depth, ct_window, custom_window, mri_percentiles,
                    auto_window, nan_cast)

Image_extractor_3D(paths, target_depth, ct_window, custom_window, mri_percentiles, auto_window, nan_cast) ==
  IF ReadLoopError(paths) # None
  THEN [raised |-> FALSE, dict |-> [error |-> ReadLoopError(paths)[1]]]
  ELSE StackAndMap(paths, slices_data(paths), target_depth, ct_window, custom_window,
                   mri_percentiles, auto_window, nan_cast)

(***************************************************************************)
(* The workflow state (AgentState).  A node returns a dict; LangGraph      *)
(* writes the keys that are fields of AgentState into the state and drops  *)
(* the others.                                                             *)
(***************************************************************************)
AgentStateKeys ==
  {"study_id", "user_id", "user_role", "dicom_path", "modality", "is_relevant",
   "dicom_metadata", "clinical_context", "image_findings", "case_summary",
   "draft_findings", "draft_impression", "final_report", "image_tensor",
   "volume_tensor", "stop_reason", "model_predictions", "gradcam_heatmaps",
   "clinical_recommendations", "preprocessing_error", "error"}

\* a merge that replaces the state by the update
Merge_replacing_state(s, update) ==
  [k \in DOMAIN update \cap AgentStateKeys |-> update[k]]

Merge(s, update) ==
  [k \in DOMAIN s \cup (DOMAIN update \cap AgentStateKeys) |->
     IF k \in DOMAIN update THEN update[k] ELSE s[k]]

(***************************************************************************)
(* What the vision-inference collaborators can answer for one image or     *)
(* volume: positive findings and ranked (label, percent) predictions.      *)
(***************************************************************************)
PredKinds ==
  { [positive_findings |-> <<>>, top_predictions |-> <<>>],
    [positive_findings |-> <<>>,
     top_predictions |-> << <<"Mass", 40>>, <<"Edema", 10>>, <<"Nodule", 5>>, <<"Effusion", 2>> >>],
    [positive_findings |-> <<"Edema", "Mass">>,
     top_predictions |-> << <<"Mass", 90>>, <<"Edema", 70>> >>],
    [positive_findings |-> <<"Mass">>, top_predictions |-> << <<"Mass", 80>>, <<"Edema", 20>> >>] }

Urgencies == {"routine", "urgent"}

\* router1 sending every relevant study that is not CR/DX to the guardrail's
\* sibling: CT goes down the planar path
router1_planar_ct(s) ==
  IF s["is_relevant"] = FALSE THEN Some("END")
  ELSE IF s["is_relevant"] = TRUE /\ s["modality"] \in {"CR", "DX", "CT"} THEN Some("Xray")
  ELSE IF s["is_relevant"] = TRUE /\ s["modality"] \in {"MR"} THEN Some("CT/MRI")
  ELSE None

\* the_nodes.router1; None when no branch of the function returns
router1(s) ==
  IF s["is_relevant"] = FALSE THEN Some("END")
  ELSE IF s["is_relevant"] = TRUE /\ s["modality"] \in {"CR", "DX"} THEN Some("Xray")
  ELSE IF s["is_relevant"] = TRUE /\ s["modality"] \in {"CT", "MR"} THEN Some("CT/MRI")
  ELSE None

\* router2 testing that the guardrail answered, not what it answered
router2_any_answer(s) == IF "is_relevant" \in DOMAIN s THEN "valid" ELSE "invalid"

\* the_nodes.router2
router2(s) == IF Get(s, "is_relevant") = TRUE THEN "valid" ELSE "invalid"

\* the edges of the compiled graph: the node a router's answer leads to;
\* an answer that is no key of the path map makes LangGraph raise KeyError
Edge1(route) ==
  IF route = None THEN "RAISED"
  ELSE CASE route[1] = "Xray" -> "px"
         [] route[1] = "CT/MRI" -> "cmg"
         [] route[1] = "END" -> "END"

Edge2(route) == IF route = "valid" THEN "tf" ELSE "END"

\* the_nodes.relevance_gateway
relevance_gateway(paths) ==
  LET mod == ModalityRelevance(paths)
      meta == ExtractMetadata(paths)
  IN IF mod["is_relevant"] = FALSE THEN [raised |-> FALSE, dict |-> mod]
     ELSE IF meta.raised THEN [raised |-> TRUE]
     ELSE [raised |-> FALSE, dict |-> meta.dict @@ mod]

\* tensor_formation handing on the extractor's result without its error branch
tensor_formation_unchecked(result) ==
  IF result.raised THEN [raised |-> TRUE]
  ELSE [raised |-> FALSE, dict |-> result.dict]

\* the_nodes.tensor_formation, result being what processor.Image_extractor_3D()
\* gave
tensor_formation(result) ==
  IF result.raised THEN [raised |-> TRUE]
  ELSE IF "error" \in DOMAIN result.dict
  THEN [raised |-> FALSE,
        dict |-> [volume_tensor |-> None, preprocessing_error |-> result.dict["error"]]]
  ELSE [raised |-> FALSE, dict |-> result.dict]

\* list(dict.fromkeys(list)): duplicates removed, first appearances kept in order
RECURSIVE Dedup(_)
Dedup(list) ==
  IF list = <<>> THEN <<>>
  ELSE LET init == Dedup(SubSeq(list, 1, Len(list) - 1))
           last == list[Len(list)]
       IN IF \E i \in 1..Len(init) : init[i] = last THEN init ELSE Append(init, last)

RECURSIVE Concat(_)
Concat(lists) == IF lists = <<>> THEN <<>> ELSE Head(lists) \o Concat(Tail(lists))

\* the labels of the first three top predictions of every prediction
TopThree(predictions) ==
  Concat([i \in 1..Len(predictions) |->
            LET top == predictions[i].top_predictions
            IN [j \in 1..(IF Len(top) < 3 THEN Len(top) ELSE 3) |-> top[j][1]]])

\* the findings of rag_recommendations without the top-prediction fallback
unique_findings_no_fallback(predictions) ==
  Dedup(Concat([i \in 1..Len(predictions) |-> predictions[i].positive_findings]))

\* the findings rag_recommendations hands to the recommendation pipeline
unique_findings(predictions) ==
  LET all_findings == Concat([i \in 1..Len(predictions) |-> predictions[i].positive_findings])
  IN IF Dedup(all_findings) # <<>> THEN Dedup(all_findings)
     ELSE Dedup(TopThree(predictions))

\* what rag_recommendations returns when get_rag_pipeline() answers None
rag_unavailable(findings) ==
  [findings |-> findings,
   recommendations |-> "RAG pipeline unavailable. Please verify API keys are configured.",
   overall_urgency |-> "unknown",
   error |-> Msg("RAG pipeline not initialized - check OPENAI_API_KEY and PINECONE_API_KEY", 0)]

\* an except branch that reports the lowest urgency level
rag_error_as_routine(findings) ==
  [findings |-> findings,
   recommendations |-> "Error generating recommendations: {e}",
   overall_urgency |-> "routine",
   error |-> Msg("{e}", 0)]

\* what rag_recommendations returns when generate_recommendations raises
rag_error(findings) ==
  [findings |-> findings,
   recommendations |-> "Error generating recommendations: {e}",
   overall_urgency |-> "unknown",
   error |-> Msg("{e}", 0)]

\* the probability dict: the first probability seen for each label
finding_probabilities(predictions) ==
  LET pairs == Concat([i \in 1..Len(predictions) |-> predictions[i].top_predictions])
      labels == {pairs[i][1] : i \in 1..Len(pairs)}
  IN [l \in labels |-> pairs[Min({i \in 1..Len(pairs) : pairs[i][1] = l})][2]]

\* the_nodes.extract_output: the findings and recommendations of a final
\* state, or the state itself when it has neither
extract_output(s) ==
  LET predictions == Get(s, "model_predictions")
      recs == Get(s, "clinical_recommendations")
      keys == (IF predictions # None /\ predictions[1] # <<>> THEN {"findings"} ELSE {})
                \cup (IF recs # None THEN {"recommendations", "urgency"} ELSE {})
  IN IF keys = {} THEN s
     ELSE [k \in keys |->
             CASE k = "findings" ->
                    Some([i \in 1..Len(predictions[1]) |->
                            [positive_findings |-> predictions[1][i].positive_findings,
                             top_predictions |-> predictions[1][i].top_predictions]])
               [] k = "recommendations" -> Some(recs[1].recommendations)
               [] k = "urgency" -> Some(recs[1].overall_urgency)]

(***************************************************************************)
(* State.                                                                  *)
(*   dicom_path  the study: the list of slice locators handed in           *)
(*   args        the keyword arguments of a direct build_volume call       *)
(*   pc          the workflow node about to run, "END" after the terminal  *)
(*               node, "RAISED" when an exception left the graph; for a    *)
(*               direct call of a DicomProcessor method, "idle"/"returned"  *)
(*   state       the AgentState of the run                                 *)
(*   executed    the nodes run so far, in order                            *)
(*   calls       the collaborator calls made so far, each with the list of *)
(*               findings handed over (empty where none is)                *)
(*   ret         what the last DicomProcessor method called returned; in a *)
(*               workflow run, the response of the analyze endpoint        *)
(* Process-wide state of the service:                                      *)
(*   _ct_mri_presenter  the module-level singleton of ct_mri_presenter     *)
(*   instances   the CTMRIPresenter objects constructed so far, by the     *)
(*               caller that constructed them, with their lazily loaded    *)
(*               models (a model is named after the caller that built it) *)
(*   callers     the position and locals of each thread calling            *)
(*               get_ct_mri_presenter() and then one model getter          *)
(*   login_limiter  the attempts dict of the module-level RateLimiter      *)
(*   clock       time.time(), in seconds                                   *)
(*   responses   the login requests answered so far, in order              *)
(*   rag         one call of RAGPipeline.generate_recommendations: its     *)
(*               position, arguments and locals, and the log of the        *)
(*               collaborator calls and sleeps it made                     *)
(*   _xray_presenter  the _model and _gradcam fields of the module-level   *)
(*               TensorPresenter of the_nodes                              *)
(*   xray_callers  the position and locals of each thread inside           *)
(*               xray_densenet_gradcam                                     *)
(***************************************************************************)
VARIABLES dicom_path, args, pc, state, executed, calls, ret,
          _ct_mri_presenter, instances, callers, login_limiter, clock, responses,
          rag, _xray_presenter, xray_callers

workflow_vars == <<dicom_path, args, pc, state, executed, calls, ret>>

singleton_vars == <<_ct_mri_presenter, instances, callers>>

limiter_vars == <<login_limiter, clock, responses>>

rag_vars == <<rag>>

xray_vars == <<_xray_presenter, xray_callers>>

vars == <<workflow_vars, singleton_vars, limiter_vars, rag_vars, xray_vars>>

(***************************************************************************)
(* Concurrent callers of get_ct_mri_presenter (ct_mri_presenter.py).       *)
(***************************************************************************)
Callers == 1..MaxCallers

ModelField(modality) == IF modality = "CT" THEN "_ct_model" ELSE "_mri_model"

\* CTMRIPresenter.__init__: both models unloaded
NewPresenter == [_ct_model |-> None, _mri_model |-> None]

SingletonIdle ==
  /\ _ct_mri_presenter = None
  /\ instances = [t \in Callers |-> None]
  /\ callers = [t \in Callers |-> [pc |-> "off"]]

(***************************************************************************)
(* The login rate limiter (process_dicom_endpoint.py).                     *)
(***************************************************************************)
max_attempts == 5
window_seconds == 300
TickSeconds == 100
client_ip == "203.0.113.7"

LimiterIdle ==
  /\ login_limiter = [k \in {client_ip} |-> <<>>]
  /\ clock = 0
  /\ responses = <<>>

(***************************************************************************)
(* RAGPipeline.generate_recommendations (rag_pipeline.py) and the shared   *)
(* X-ray presenter (tensor_presenter.py), idle.                            *)
(***************************************************************************)
max_retries == 3

RagIdle == rag = [pc |-> "off"]

\* TensorPresenter.__init__: model and Grad-CAM loaded lazily
XrayIdle ==
  /\ _xray_presenter = [_model |-> None, _gradcam |-> None]
  /\ xray_callers = [t \in Callers |-> [pc |-> "off"]]

DefaultArgs ==
  [target_depth |-> target_depth_default, ct_window |-> None, custom_window |-> None,
   mri_percentiles |-> <<1, 99>>, auto_window |-> TRUE]

NoReturn == [op |-> "none"]

\* outcomes of the undefined float -> uint8 cast of a NaN
NanCastOutcomes == {0, 255}

(***************************************************************************)
(* Inputs.  FileKinds are the kinds of slice a study is made of; Studies   *)
(* are the studies of up to MaxFiles copies of one kind in which at most   *)
(* one slice is of another kind.                                           *)
(***************************************************************************)
FileKinds ==
  { Slice("CT"), Slice("MR"), Slice("CR"), Slice("DX"), Slice("OT"), Slice("ct"),
    [Slice("CT") EXCEPT !.Modality = None],
    [Slice("CT") EXCEPT !.read = "invalid"],
    [Slice("CT") EXCEPT !.read = "error"],
    [Slice("CT") EXCEPT !.pixel_array = <<0, 50, 100>>],
    [Slice("CT") EXCEPT !.SeriesInstanceUID = Some("1.2.840.2")],
    [Slice("CT") EXCEPT !.SeriesInstanceUID = None],
    [Slice("CT") EXCEPT !.PixelData = "absent"],
    [Slice("CT") EXCEPT !.PixelData = "corrupt"],
    [Slice("CR") EXCEPT !.PixelData = "absent"],
    [Slice("CT") EXCEPT !.WindowCenter = Some(Scalar(40)), !.WindowWidth = Some(Scalar(0))] }

Studies ==
  {<<>>} \cup
  UNION { { [i \in 1..n |-> base] : base \in FileKinds } \cup
          { [i \in 1..n |-> IF i = at THEN odd ELSE base] :
              base \in FileKinds, odd \in FileKinds, at \in 1..n }
        : n \in 1..MaxFiles }

(***************************************************************************)
(* The workflow (the_nodes.wapp): one run per study.                       *)
(***************************************************************************)
Init ==
  /\ SingletonIdle
  /\ LimiterIdle
  /\ RagIdle
  /\ XrayIdle
  /\ dicom_path \in Studies
  /\ args = DefaultArgs
  /\ pc = "rg"
  /\ state = <<>>
  /\ executed = <<>>
  /\ calls = {}
  /\ ret = NoReturn

Raise(node) ==
  /\ pc' = "RAISED"
  /\ executed' = Append(executed, node)
  /\ UNCHANGED <<state>>

Step(node, update, next) ==
  /\ state' = Merge(state, update)
  /\ executed' = Append(executed, node)
  /\ pc' = next

\* node "rg" and its conditional edge
RelevanceGateway ==
  /\ pc = "rg"
  /\ LET out == relevance_gateway(dicom_path)
     IN IF out.raised THEN Raise("rg")
        ELSE Step("rg", out.dict, Edge1(router1(Merge(state, out.dict))))
  /\ UNCHANGED <<dicom_path, args, calls, ret, singleton_vars, limiter_vars, rag_vars, xray_vars>>

\* node "px"
PreprocessXray ==
  /\ pc = "px"
  /\ \E nan_cast \in NanCastOutcomes :
       Step("px", Image_extractor(dicom_path, nan_cast), "xvm")
  /\ UNCHANGED <<dicom_path, args, calls, ret, singleton_vars, limiter_vars, rag_vars, xray_vars>>

\* node "xvm": the X-ray presenter answers one prediction per tensor, or raises
XrayVisionModel ==
  /\ pc = "xvm"
  /\ IF Get(state, "image_tensor") = None
     THEN /\ Step("xvm", [model_predictions |-> None, gradcam_heatmaps |-> None], "rag")
          /\ UNCHANGED calls
     ELSE /\ calls' = calls \cup {<<"xray_densenet_gradcam", <<>>>>}
          /\ \/ Raise("xvm")
             \/ \E predictions \in [1..Len(state["image_tensor"][1]) -> PredKinds] :
                  Step("xvm",
                       [model_predictions |-> Some(predictions),
                        gradcam_heatmaps |->
                          Some([i \in 1..Len(predictions) |->
                                  {t[1] : t \in {predictions[i].top_predictions[j] :
                                                   j \in 1..Len(predictions[i].top_predictions)}}])],
                       "rag")
  /\ UNCHANGED <<dicom_path, args, ret, singleton_vars, limiter_vars, rag_vars, xray_vars>>

\* node "cmg" and its conditional edge
CtMriGuard ==
  /\ pc = "cmg"
  /\ LET out == guardrail(dicom_path)
     IN Step("cmg", out, Edge2(router2(Merge(state, out))))
  /\ UNCHANGED <<dicom_path, args, calls, ret, singleton_vars, limiter_vars, rag_vars, xray_vars>>

\* node "tf"
TensorFormation ==
  /\ pc = "tf"
  /\ \E nan_cast \in NanCastOutcomes :
       LET out == tensor_formation(Image_extractor_3D(dicom_path, target_depth_default,
                                                      None, None, <<1, 99>>, TRUE, nan_cast))
       IN IF out.raised THEN Raise("tf") ELSE Step("tf", out.dict, "ctvm")
  /\ UNCHANGED <<dicom_path, args, calls, ret, singleton_vars, limiter_vars, rag_vars, xray_vars>>

\* node "ctvm": the CT/MRI presenter answers one prediction, or raises (caught)
CtMriVisionModel ==
  /\ pc = "ctvm"
  /\ IF Get(state, "preprocessing_error") # None
     THEN /\ Step("ctvm", [model_predictions |-> None, error |-> state["preprocessing_error"]], "rag")
          /\ UNCHANGED calls
     ELSE IF Get(state, "volume_tensor") = None
     THEN /\ Step("ctvm", [model_predictions |-> None], "rag")
          /\ UNCHANGED calls
     ELSE /\ calls' = calls \cup {<<"analyze_volume", <<>>>>}
          /\ \/ \E prediction \in PredKinds :
                  Step("ctvm", [model_predictions |-> Some(<<prediction>>)], "rag")
             \/ Step("ctvm", [model_predictions |-> None, error |-> Msg("{e}", 0)], "rag")
  /\ UNCHANGED <<dicom_path, args, ret, singleton_vars, limiter_vars, rag_vars, xray_vars>>

\* node "rag": get_rag_pipeline answers None or a pipeline, whose
\* generate_recommendations answers a report or raises (caught)
RagRecommendations ==
  /\ pc = "rag"
  /\ LET predictions == Get(state, "model_predictions")
     IN IF predictions = None \/ Len(predictions[1]) = 0
           \/ unique_findings(predictions[1]) = <<>>
        THEN /\ Step("rag", [clinical_recommendations |-> None], "END")
             /\ UNCHANGED calls
        ELSE LET unique == unique_findings(predictions[1])
                 asked == calls \cup {<<"get_rag_pipeline", <<>>>>}
             IN \/ /\ calls' = asked
                   /\ Step("rag",
                           [clinical_recommendations |-> Some(rag_unavailable(unique))],
                           "END")
                \/ /\ calls' = asked \cup {<<"generate_recommendations", unique>>}
                   /\ \/ \E urgency \in Urgencies, text \in {"generated_text", "fallback_report"} :
                           Step("rag",
                                [clinical_recommendations |->
                                   Some([findings |-> unique,
                                         probabilities |-> finding_probabilities(predictions[1]),
                                         recommendations |-> text,
                                         overall_urgency |-> urgency])],
                                "END")
                      \/ Step("rag",
                              [clinical_recommendations |-> Some(rag_error(unique))],
                              "END")
  /\ UNCHANGED <<dicom_path, args, ret, singleton_vars, limiter_vars, rag_vars, xray_vars>>

\* process_dicom_endpoint.analyze_dicom from wapp.invoke on: the response
\* built from the final state of the run, or the except branch when the run
\* raised; study_status and result_status are the statuses written to the
\* study and analysis-result records
AnalyzeDicom ==
  /\ pc \in {"END", "RAISED"}
  /\ ret = NoReturn
  /\ ret' = IF pc = "RAISED"
            THEN [op |-> "analyze_dicom",
                  status |-> "error: Analysis failed - please try again",
                  modality |-> None, findings |-> None, recommendations |-> None,
                  urgency |-> None, study_status |-> "failed", result_status |-> None]
            ELSE LET output == extract_output(state)
                 IN [op |-> "analyze_dicom",
                     status |-> "completed",
                     modality |-> IF "modality" \in DOMAIN state
                                  THEN Some(state["modality"]) ELSE None,
                     findings |-> Get(output, "findings"),
                     recommendations |-> Get(output, "recommendations"),
                     urgency |-> IF "urgency" \in DOMAIN output
                                 THEN output["urgency"] ELSE Some("routine"),
                     study_status |-> "completed",
                     result_status |-> Some("completed")]
  /\ UNCHANGED <<dicom_path, args, pc, state, executed, calls, singleton_vars, limiter_vars, rag_vars, xray_vars>>

Next ==
  \/ RelevanceGateway
  \/ PreprocessXray
  \/ XrayVisionModel
  \/ CtMriGuard
  \/ TensorFormation
  \/ CtMriVisionModel
  \/ RagRecommendations
  \/ AnalyzeDicom

Spec == Init /\ [][Next]_vars

(***************************************************************************)
(* Threads that each call get_ct_mri_presenter() and then, as              *)
(* analyze_volume does, the model getter of their modality.  No lock is    *)
(* taken anywhere, so a thread switch can fall between any two steps.      *)
(***************************************************************************)
WorkflowIdle ==
  /\ dicom_path = <<>>
  /\ args = DefaultArgs
  /\ pc = "off"
  /\ state = <<>>
  /\ executed = <<>>
  /\ calls = {}
  /\ ret = NoReturn

InitSingleton ==
  /\ WorkflowIdle
  /\ LimiterIdle
  /\ RagIdle
  /\ XrayIdle
  /\ _ct_mri_presenter = None
  /\ instances = [t \in Callers |-> None]
  /\ callers \in [Callers -> {[pc |-> "get", modality |-> m, presenter |-> None,
                                model |-> None, built |-> FALSE] : m \in {"CT", "MR"}}]

\* get_ct_mri_presenter: the test `_ct_mri_presenter is None`
TestPresenter(t) ==
  /\ callers[t].pc = "get"
  /\ callers' = [callers EXCEPT ![t].pc =
                   IF _ct_mri_presenter = None THEN "construct" ELSE "return"]
  /\ UNCHANGED <<_ct_mri_presenter, instances>>

\* get_ct_mri_presenter: _ct_mri_presenter = CTMRIPresenter(...)
ConstructPresenter(t) ==
  /\ callers[t].pc = "construct"
  /\ instances' = [instances EXCEPT ![t] = Some(NewPresenter)]
  /\ _ct_mri_presenter' = Some(t)
  /\ callers' = [callers EXCEPT ![t].pc = "return"]

\* get_ct_mri_presenter: return _ct_mri_presenter
ReturnPresenter(t) ==
  /\ callers[t].pc = "return"
  /\ callers' = [callers EXCEPT ![t].pc = "get_model", ![t].presenter = _ct_mri_presenter]
  /\ UNCHANGED <<_ct_mri_presenter, instances>>

\* _get_ct_model / _get_mri_model: the test `self._ct_model is None`
TestModel(t) ==
  /\ callers[t].pc = "get_model"
  /\ callers' = [callers EXCEPT ![t].pc =
                   IF instances[callers[t].presenter[1]][1][ModelField(callers[t].modality)] = None
                   THEN "build_model" ELSE "return_model"]
  /\ UNCHANGED <<_ct_mri_presenter, instances>>

\* _get_ct_model / _get_mri_model: self._ct_model = self._build_model(...)
BuildModel(t) ==
  /\ callers[t].pc = "build_model"
  /\ instances' = [instances EXCEPT ![callers[t].presenter[1]] =
                     Some([@[1] EXCEPT ![ModelField(callers[t].modality)] = Some(t)])]
  /\ callers' = [callers EXCEPT ![t].pc = "return_model", ![t].built = TRUE]
  /\ UNCHANGED _ct_mri_presenter

\* _get_ct_model / _get_mri_model: return self._ct_model
ReturnModel(t) ==
  /\ callers[t].pc = "return_model"
  /\ callers' = [callers EXCEPT
                   ![t].pc = "done",
                   ![t].model = instances[callers[t].presenter[1]][1][ModelField(callers[t].modality)]]
  /\ UNCHANGED <<_ct_mri_presenter, instances>>

NextSingleton ==
  /\ \E t \in Callers :
       \/ TestPresenter(t)
       \/ ConstructPresenter(t)
       \/ ReturnPresenter(t)
       \/ TestModel(t)
       \/ BuildModel(t)
       \/ ReturnModel(t)
  /\ UNCHANGED <<workflow_vars, limiter_vars, rag_vars, xray_vars>>

SingletonSpec == InitSingleton /\ [][NextSingleton]_vars

(***************************************************************************)
(* Login requests of one client address (process_dicom_endpoint.login).    *)
(* The handler never awaits, so a request runs to its answer in one step;  *)
(* its readings of time.time() fall on the same clock value.               *)
(***************************************************************************)
\* a limiter that lets a request through while at most max_attempts are kept
is_allowed_one_more(attempts, key, now) ==
  LET recent(t) == now - t < window_seconds
      kept == SelectSeq(attempts[key], recent)
  IN [attempts |-> [attempts EXCEPT ![key] = kept],
      allowed |-> Len(kept) <= max_attempts]

\* RateLimiter.is_allowed: the attempts kept for the key, and the answer
is_allowed(attempts, key, now) ==
  LET recent(t) == now - t < window_seconds
      kept == SelectSeq(attempts[key], recent)
  IN [attempts |-> [attempts EXCEPT ![key] = kept],
      allowed |-> Len(kept) < max_attempts]

\* RateLimiter.record_attempt
record_attempt(attempts, key, now) == [attempts EXCEPT ![key] = Append(@, now)]

\* what authenticate_user and is_email_verified make of the credentials sent
Credentials == {"wrong_password", "unverified_email", "verified"}

InitLogin ==
  /\ WorkflowIdle
  /\ SingletonIdle
  /\ LimiterIdle
  /\ RagIdle
  /\ XrayIdle

\* time passes
Tick ==
  /\ clock < MaxTicks * TickSeconds
  /\ clock' = clock + TickSeconds
  /\ UNCHANGED <<login_limiter, responses>>

\* one request to /api/auth/token; authenticated tells whether
\* authenticate_user was called
Login ==
  /\ Len(responses) < MaxRequests
  /\ \E credentials \in Credentials :
       LET checked == is_allowed(login_limiter, client_ip, clock)
       IN IF ~checked.allowed
          THEN /\ login_limiter' = checked.attempts
               /\ responses' = Append(responses, [time |-> clock, status |-> 429,
                                                   authenticated |-> FALSE])
          ELSE IF credentials = "wrong_password"
          THEN /\ login_limiter' = record_attempt(checked.attempts, client_ip, clock)
               /\ responses' = Append(responses, [time |-> clock, status |-> 401,
                                                   authenticated |-> TRUE])
          ELSE /\ login_limiter' = checked.attempts
               /\ responses' = Append(responses,
                                       [time |-> clock,
                                        status |-> IF credentials = "unverified_email"
                                                   THEN 403 ELSE 200,
                                        authenticated |-> TRUE])
  /\ UNCHANGED clock

NextLogin ==
  /\ Tick \/ Login
  /\ UNCHANGED <<workflow_vars, singleton_vars, rag_vars, xray_vars>>

LoginSpec == InitLogin /\ [][NextLogin]_vars

(***************************************************************************)
(* One call of RAGPipeline.generate_recommendations(findings) on a         *)
(* pipeline whose knowledge base is populated.  Every collaborator call    *)
(* (Pinecone index, OpenAI embeddings and chat completions) answers or     *)
(* raises; rag.log records the calls with their outcome and the sleeps, in *)
(* order; rag.attempt is the loop variable of the retry loop under way.    *)
(***************************************************************************)
RagFindings == { <<>>, <<"Mass">>, <<"Edema", "Mass">> }

\* the urgency metadata of the documents index.query can match
RetrievedDocs == Kinds(MaxDocs, {"routine", "semi-urgent", "urgent", "emergent"})

urgency_levels == [emergent |-> 4, urgent |-> 3, routine |-> 1] @@ ("semi-urgent" :> 2)

\* lines 364-374: the urgency of the most urgent retrieved document
RECURSIVE MaxUrgencyFrom(_, _, _)
MaxUrgencyFrom(retrieved_docs, max_urgency, max_urgency_score) ==
  IF retrieved_docs = <<>> THEN max_urgency
  ELSE LET urgency == Head(retrieved_docs)
           score == IF urgency \in DOMAIN urgency_levels THEN urgency_levels[urgency] ELSE 1
       IN IF score > max_urgency_score
          THEN MaxUrgencyFrom(Tail(retrieved_docs), urgency, score)
          ELSE MaxUrgencyFrom(Tail(retrieved_docs), max_urgency, max_urgency_score)

\* RAGPipeline._generate_fallback_report: the basic report listing the findings
_generate_fallback_report(findings) == [report |-> "basic report", findings |-> findings]

\* the dict generate_recommendations returns
RagResult(findings, generated_text, retrieved_docs) ==
  [findings |-> findings, recommendations |-> generated_text,
   retrieved_documents |-> retrieved_docs,
   overall_urgency |-> MaxUrgencyFrom(retrieved_docs, "routine", 0),
   model_used |-> "gpt-4"]

InitRag ==
  /\ WorkflowIdle
  /\ SingletonIdle
  /\ LimiterIdle
  /\ XrayIdle
  /\ \E findings \in RagFindings :
       rag = [pc |-> "retrieve", findings |-> findings, log |-> <<>>, attempt |-> 0,
              retrieved_docs |-> None, result |-> None]

\* retrieve_recommendations up to the index: no findings, no retrieval;
\* _get_or_create_index is not guarded
Retrieve ==
  /\ rag.pc = "retrieve"
  /\ IF rag.findings = <<>>
     THEN rag' = [rag EXCEPT !.pc = "chat", !.retrieved_docs = Some(<<>>)]
     ELSE \/ rag' = [rag EXCEPT !.pc = "embedding",
                                !.log = Append(@, <<"pinecone.Index", "ok">>)]
          \/ rag' = [rag EXCEPT !.pc = "raised",
                                !.log = Append(@, <<"pinecone.Index", "failed">>)]

\* _create_embedding: one iteration of its loop
CreateEmbedding ==
  /\ rag.pc = "embedding"
  /\ \/ rag' = [rag EXCEPT !.pc = "query", !.attempt = 0,
                           !.log = Append(@, <<"embeddings.create", "ok">>)]
     \/ IF rag.attempt = max_retries - 1
        THEN rag' = [rag EXCEPT !.pc = "raised",
                                !.log = Append(@, <<"embeddings.create", "failed">>)]
        ELSE rag' = [rag EXCEPT !.attempt = @ + 1,
                                !.log = @ \o << <<"embeddings.create", "failed">>,
                                               <<"sleep", 2 ^ rag.attempt>> >>]

\* index.query: not guarded
QueryIndex ==
  /\ rag.pc = "query"
  /\ \/ \E docs \in RetrievedDocs :
          rag' = [rag EXCEPT !.pc = "chat", !.retrieved_docs = Some(docs),
                             !.log = Append(@, <<"index.query", "ok">>)]
     \/ rag' = [rag EXCEPT !.pc = "raised", !.log = Append(@, <<"index.query", "failed">>)]

\* generate_recommendations: one iteration of the chat-completion loop, and
\* the return when the loop ends
ChatCompletion ==
  /\ rag.pc = "chat"
  /\ \/ rag' = [rag EXCEPT !.pc = "returned",
                           !.log = Append(@, <<"chat.completions.create", "ok">>),
                           !.result = Some(RagResult(rag.findings, "generated_text",
                                                     rag.retrieved_docs[1]))]
     \/ IF rag.attempt = max_retries - 1
        THEN rag' = [rag EXCEPT !.pc = "returned",
                                !.log = Append(@, <<"chat.completions.create", "failed">>),
                                !.result = Some(RagResult(rag.findings,
                                                          _generate_fallback_report(rag.findings),
                                                          rag.retrieved_docs[1]))]
        ELSE rag' = [rag EXCEPT !.attempt = @ + 1,
                                !.log = @ \o << <<"chat.completions.create", "failed">>,
                                               <<"sleep", 2 ^ rag.attempt>> >>]

NextRag ==
  /\ \/ Retrieve
     \/ CreateEmbedding
     \/ QueryIndex
     \/ ChatCompletion
  /\ UNCHANGED <<workflow_vars, singleton_vars, limiter_vars, xray_vars>>

RagSpec == InitRag /\ [][NextRag]_vars

(***************************************************************************)
(* Threads inside xray_densenet_gradcam on the module-level presenter      *)
(* _xray_presenter of the_nodes, each calling _get_model_and_gradcam.  No  *)
(* lock is taken, so a thread switch can fall between any two steps.  A    *)
(* model is named after the thread that loaded it, a Grad-CAM object after *)
(* the model it hooks and the thread that built it.                        *)
(***************************************************************************)
InitXray ==
  /\ WorkflowIdle
  /\ SingletonIdle
  /\ LimiterIdle
  /\ RagIdle
  /\ _xray_presenter = [_model |-> None, _gradcam |-> None]
  /\ xray_callers = [t \in Callers |-> [pc |-> "test", model |-> None, gradcam |-> None]]

\* _get_model_and_gradcam: the test `self._model is None`
TestXrayModel(t) ==
  /\ xray_callers[t].pc = "test"
  /\ xray_callers' = [xray_callers EXCEPT ![t].pc =
                        IF _xray_presenter._model = None THEN "load" ELSE "read_model"]
  /\ UNCHANGED _xray_presenter

\* self._model = self._load_model(); loading the weights can raise
LoadXrayModel(t) ==
  /\ xray_callers[t].pc = "load"
  /\ \/ /\ _xray_presenter' = [_xray_presenter EXCEPT !._model = Some(t)]
        /\ xray_callers' = [xray_callers EXCEPT ![t].pc = "gradcam"]
     \/ /\ xray_callers' = [xray_callers EXCEPT ![t].pc = "raised"]
        /\ UNCHANGED _xray_presenter

\* self._gradcam = GradCAM(self._model, self._model.features.denseblock4)
BuildGradcam(t) ==
  /\ xray_callers[t].pc = "gradcam"
  /\ _xray_presenter' = [_xray_presenter EXCEPT
                           !._gradcam = Some([model |-> _xray_presenter._model[1], by |-> t])]
  /\ xray_callers' = [xray_callers EXCEPT ![t].pc = "read_model"]

\* return self._model, self._gradcam: the first attribute read
ReadModel(t) ==
  /\ xray_callers[t].pc = "read_model"
  /\ xray_callers' = [xray_callers EXCEPT ![t].pc = "read_gradcam",
                                          ![t].model = _xray_presenter._model]
  /\ UNCHANGED _xray_presenter

\* return self._model, self._gradcam: the second attribute read, and the
\* unpacking `model, gradcam = ...` in xray_densenet_gradcam
ReadGradcam(t) ==
  /\ xray_callers[t].pc = "read_gradcam"
  /\ xray_callers' = [xray_callers EXCEPT ![t].pc = "received",
                                          ![t].gradcam = _xray_presenter._gradcam]
  /\ UNCHANGED _xray_presenter

\* xray_densenet_gradcam: gradcam.generate(...) for the heatmaps, which raises
\* AttributeError on None
GenerateHeatmaps(t) ==
  /\ xray_callers[t].pc = "received"
  /\ xray_callers' = [xray_callers EXCEPT ![t].pc =
                        IF xray_callers[t].gradcam = None THEN "raised" ELSE "done"]
  /\ UNCHANGED _xray_presenter

NextXray ==
  /\ \E t \in Callers :
       \/ TestXrayModel(t)
       \/ LoadXrayModel(t)
       \/ BuildGradcam(t)
       \/ ReadModel(t)
       \/ ReadGradcam(t)
       \/ GenerateHeatmaps(t)
  /\ UNCHANGED <<workflow_vars, singleton_vars, limiter_vars, rag_vars>>

XraySpec == InitXray /\ [][NextXray]_vars

(***************************************************************************)
(* Direct calls of the DicomProcessor methods, one call per behaviour, on  *)
(* a processor constructed for dicom_path.                                 *)
(***************************************************************************)
\* studies that mix modality tags and unreadable files freely
IntakeStudies ==
  Kinds(MaxIntake,
        { Slice("CT"), Slice("MR"), Slice("CR"), Slice("OT"), Slice("ct"),
          [Slice("CT") EXCEPT !.Modality = None],
          [Slice("CT") EXCEPT !.read = "invalid"],
          [Slice("CT") EXCEPT !.read = "error"] })

\* CT studies that mix series UIDs and unreadable files freely
SeriesStudies ==
  Kinds(MaxFiles,
        { Slice("CT"),
          [Slice("CT") EXCEPT !.SeriesInstanceUID = Some("1.2.840.2")],
          [Slice("CT") EXCEPT !.SeriesInstanceUID = None],
          [Slice("CT") EXCEPT !.read = "error"] })

\* series with freely chosen slice positions; slice i holds the pixel i
Positions == {1, 2, 3}

PositionStudies ==
  UNION { { [i \in 1..n |-> [Slice(mod) EXCEPT !.ImagePositionPatient = Some(pos[i]),
                                                 !.pixel_array = <<i>>]]
            : pos \in [1..n -> Positions], mod \in {"CT", "MR"} }
        : n \in 1..MaxSort }

\* series whose slices carry freely chosen subsets of the three position tags,
\* with values that disagree between the tags
TagStudies ==
  Kinds(MaxSort,
        { [Slice("CT") EXCEPT !.ImagePositionPatient = Some(2), !.SliceLocation = Some(1),
                              !.InstanceNumber = Some(3)],
          [Slice("CT") EXCEPT !.ImagePositionPatient = Some(1), !.InstanceNumber = Some(3)],
          [Slice("CT") EXCEPT !.SliceLocation = Some(1), !.InstanceNumber = Some(2)],
          [Slice("CT") EXCEPT !.SliceLocation = Some(3), !.InstanceNumber = Some(1)],
          [Slice("CT") EXCEPT !.InstanceNumber = Some(2)],
          Slice("CT") })

\* planar studies of slices that differ in pixels, photometric interpretation
\* and rescale tags
XraySlices ==
  { [Slice("CR") EXCEPT !.pixel_array = <<0, 10, 100>>],
    [Slice("CR") EXCEPT !.pixel_array = <<0, 10, 100>>,
                        !.PhotometricInterpretation = Some("MONOCHROME1")],
    [Slice("CR") EXCEPT !.pixel_array = <<5, 5, 5>>],
    [Slice("CR") EXCEPT !.pixel_array = <<0, 60, 100>>,
                        !.RescaleSlope = Some(2), !.RescaleIntercept = Some(-1)] }

XrayStudies == Kinds(MaxIntake, XraySlices)

\* one CT slice with freely chosen window, body-part and description tags,
\* and the window arguments a caller can pass
WindowTags ==
  { <<None, None>>, <<Some(Scalar(50)), Some(Scalar(350))>>,
    <<Some(Multi(<<50, 100>>)), Some(Multi(<<350, 2000>>))>>,
    <<Some(Scalar(50)), None>>, <<Some(Multi(<<50, 100>>)), Some(Scalar(350))>>,
    <<Some(Scalar(40)), Some(Scalar(0))>> }

WindowStudies ==
  { << [Slice("CT") EXCEPT !.pixel_array = <<-1000, 40, 3000>>,
                           !.WindowCenter = wt[1], !.WindowWidth = wt[2],
                           !.BodyPartExamined = bp, !.StudyDescription = sd,
                           !.SeriesDescription = rd] >>
    : wt \in WindowTags,
      bp \in {None, Some("CHEST"), Some("Chest"), Some(" chest "), Some("NECK"),
              Some(""), Some("LIVER")},
      sd \in {None, Some("brain mri"), Some("HEPATIC ABDOMINAL")},
      rd \in {None, Some("FRACTURE HEAD")} }

WindowArgs ==
  { [DefaultArgs EXCEPT !.custom_window = cw, !.ct_window = name, !.auto_window = auto,
                        !.target_depth = 1]
    : cw \in {None, Some(<<100, 200>>)},
      name \in {None, Some("lung"), Some("bone"), Some("bogus")},
      auto \in BOOLEAN }

\* volumes of up to MaxDepth slices of two voxels with freely chosen values,
\* for each modality branch, with the intensity arguments of that branch
PixelValues == {-1, 0, 2}

Volumes(mod, slope, intercept) ==
  UNION { { [i \in 1..n |-> [Slice(mod) EXCEPT !.pixel_array = px[i],
                                                !.RescaleSlope = slope,
                                                !.RescaleIntercept = intercept]]
            : px \in [1..n -> [1..2 -> PixelValues]] }
        : n \in 1..MaxDepth }

TargetDepths == {1, 2, 3}

\* the volumes explored for a modality, and the intensity arguments a caller
\* can pass on that modality's branch
NumericVolumes(mod) ==
  IF mod = "CT" THEN Volumes("CT", None, None) \cup Volumes("CT", Some(2), Some(-1))
  ELSE Volumes(mod, None, None)

NumericArgs(mod) ==
  IF mod = "CT"
  THEN { [DefaultArgs EXCEPT !.custom_window = cw, !.target_depth = td]
         : cw \in {None, Some(<<0, 2>>), Some(<<1, 3>>), Some(<<0, 0>>), Some(<<1, -2>>)},
           td \in TargetDepths }
  ELSE IF mod = "MR"
  THEN { [DefaultArgs EXCEPT !.mri_percentiles = pct, !.target_depth = td]
         : pct \in {<<1, 99>>, <<0, 100>>, <<50, 50>>, <<75, 25>>, <<0, 101>>},
           td \in TargetDepths }
  ELSE { [DefaultArgs EXCEPT !.target_depth = td] : td \in TargetDepths }

\* CT series whose slices carry freely chosen positions and rescale tags;
\* slice i holds the pixels i and 10 * i
RescaleTags == { <<None, None>>, <<Some(2), Some(-1)>>, <<Some(3), Some(5)>> }

RescaleStudies ==
  UNION { { [i \in 1..n |-> [Slice("CT") EXCEPT !.ImagePositionPatient = Some(tags[i][1]),
                                                  !.RescaleSlope = tags[i][2][1],
                                                  !.RescaleIntercept = tags[i][2][2],
                                                  !.pixel_array = <<i, 10 * i>>]]
            : tags \in [1..n -> {1, 2} \X RescaleTags] }
        : n \in 1..MaxIntake }

RescaleArgs == { [DefaultArgs EXCEPT !.target_depth = 2] }

\* series of up to MaxSort one-voxel slices with freely chosen values, on the
\* min-max branch, and the target depths a caller can ask for
DepthStudies ==
  UNION { { [i \in 1..n |-> [Slice("OT") EXCEPT !.pixel_array = <<px[i]>>]]
            : px \in [1..n -> {0, 1, 2}] }
        : n \in 1..MaxSort }

DepthArgs == { [DefaultArgs EXCEPT !.target_depth = td] : td \in 1..6 }

InitCall ==
  /\ \/ /\ dicom_path \in Studies \cup IntakeStudies \cup SeriesStudies \cup PositionStudies
                          \cup TagStudies
        /\ args = DefaultArgs
     \/ /\ dicom_path \in WindowStudies
        /\ args \in WindowArgs
     \/ \E mod \in {"CT", "MR", "OT"} :
          /\ dicom_path \in NumericVolumes(mod)
          /\ args \in NumericArgs(mod)
  /\ SingletonIdle
  /\ LimiterIdle
  /\ RagIdle
  /\ XrayIdle
  /\ pc = "idle"
  /\ state = <<>>
  /\ executed = <<>>
  /\ calls = {}
  /\ ret = NoReturn

Return(value) ==
  /\ pc = "idle"
  /\ pc' = "returned"
  /\ ret' = value
  /\ UNCHANGED <<dicom_path, args, state, executed, calls, singleton_vars, limiter_vars, rag_vars, xray_vars>>

CallModalityRelevance ==
  Return([op |-> "ModalityRelevance", raised |-> FALSE, dict |-> ModalityRelevance(dicom_path)])

CallGuardrail ==
  Return([op |-> "guardrail", raised |-> FALSE, dict |-> guardrail(dicom_path)])

CallExtractCTWindowSettings ==
  Return([op |-> "ExtractCTWindowSettings"] @@ ExtractCTWindowSettings(dicom_path))

CallImageExtractor ==
  \E nan_cast \in NanCastOutcomes :
    Return([op |-> "Image_extractor", raised |-> FALSE,
            dict |-> Image_extractor(dicom_path, nan_cast)])

CallImageExtractor3D ==
  \E nan_cast \in NanCastOutcomes :
    Return([op |-> "Image_extractor_3D"] @@
           Image_extractor_3D(dicom_path, args.target_depth, args.ct_window,
                              args.custom_window, args.mri_percentiles,
                              args.auto_window, nan_cast))

NextCall ==
  \/ CallModalityRelevance
  \/ CallGuardrail
  \/ CallExtractCTWindowSettings
  \/ CallImageExtractor
  \/ CallImageExtractor3D

CallSpec == InitCall /\ [][NextCall]_vars

\* the same calls on the studies whose pixel data, rescale tags and target
\* depth vary slice by slice
InitPixel ==
  /\ \/ /\ dicom_path \in XrayStudies
        /\ args = DefaultArgs
     \/ /\ dicom_path \in NumericVolumes("MR")
        /\ args \in NumericArgs("MR")
     \/ /\ dicom_path \in DepthStudies
        /\ args \in DepthArgs
     \/ /\ dicom_path \in RescaleStudies
        /\ args \in RescaleArgs
  /\ SingletonIdle
  /\ LimiterIdle
  /\ RagIdle
  /\ XrayIdle
  /\ pc = "idle"
  /\ state = <<>>
  /\ executed = <<>>
  /\ calls = {}
  /\ ret = NoReturn

PixelSpec == InitPixel /\ [][NextCall]_vars

(***************************************************************************)
(* Properties of the workflow.                                             *)
(***************************************************************************)
Executed(node) == \E i \in 1..Len(executed) : executed[i] = node

AllReadable(paths) == \A i \in 1..Len(paths) : paths[i].read = "ok"

\* C1: no stage of the graph lets an exception escape: a run never ends with
\* an exception raised out of a node or of the routing between nodes.
C1_NoExceptionEscapes == pc # "RAISED"

\* C2: after intake the route depends on (is_relevant, modality) only: a study
\* that is not relevant ends at once, no other stage having run and no
\* collaborator called; a relevant CR/DX study goes on to preprocess_xray and
\* never runs the guardrail; a relevant CT/MR study goes on to the guardrail
\* and never runs the planar path.
C2_RoutingByRelevanceAndModality ==
  Len(executed) >= 1 =>
    LET intake == ModalityRelevance(dicom_path)
        second == IF Len(executed) >= 2 THEN executed[2] ELSE pc
    IN /\ executed[1] = "rg"
       /\ ~intake["is_relevant"] => executed = <<"rg">> /\ pc = "END" /\ calls = {}
       /\ intake["is_relevant"] /\ intake["modality"] \in {"CR", "DX"} =>
            /\ second = "px"
            /\ ~Executed("cmg") /\ ~Executed("tf") /\ ~Executed("ctvm")
       /\ intake["is_relevant"] /\ intake["modality"] \in {"CT", "MR"} =>
            /\ second = "cmg"
            /\ ~Executed("px") /\ ~Executed("xvm")

C2_Witness ==
  /\ pc = "END"
  /\ Executed("cmg") /\ Executed("rag")
  /\ state["modality"] = "MR"

\* C3: when the guardrail judges a CT/MR study invalid the run ends at once:
\* the state carries the guardrail's stop_reason and neither tensor_formation
\* nor inference nor the recommendation stage runs; a study of 4 slices ends
\* with the reason that reports the insufficient slice count.
C3_GuardrailRejects ==
  Executed("cmg") /\ ~guardrail(dicom_path)["is_relevant"] =>
    /\ executed = <<"rg", "cmg">>
    /\ pc = "END"
    /\ calls = {}
    /\ state["is_relevant"] = FALSE
    /\ "stop_reason" \in DOMAIN state
    /\ state["stop_reason"] = guardrail(dicom_path)["stop_reason"]
    /\ state["stop_reason"][1] # ""
    /\ DOMAIN state \cap {"volume_tensor", "model_predictions", "clinical_recommendations"} = {}
    /\ Len(dicom_path) = 4 =>
         state["stop_reason"] =
           Msg("Insufficient slices for 3D analysis. Got {slice_count}, need at least 5.", 4)

C3_Witness ==
  /\ Len(dicom_path) = 4
  /\ \A i \in 1..4 : dicom_path[i] = Slice("CT")
  /\ executed = <<"rg", "cmg">>
  /\ pc = "END"

\* C4: when build_volume reports an error, the run goes on to its terminal
\* node carrying that error: neither the vision-inference collaborator nor
\* the recommendation collaborator is called, and the terminal state has no
\* volume, no model predictions and no recommendations.
C4_PreprocessingErrorEndsRun ==
  Executed("tf") /\ ReadLoopError(dicom_path) # None =>
    /\ pc \in {"ctvm", "rag", "END"}
    /\ calls = {}
    /\ Get(state, "volume_tensor") = None
    /\ Get(state, "preprocessing_error") = ReadLoopError(dicom_path)[1]
    /\ pc = "END" =>
         /\ executed = <<"rg", "cmg", "tf", "ctvm", "rag">>
         /\ Get(state, "model_predictions") = None
         /\ Get(state, "clinical_recommendations") = None
         /\ Get(state, "error") = ReadLoopError(dicom_path)[1]

C4_Witness ==
  /\ pc = "END"
  /\ Executed("tf")
  /\ "preprocessing_error" \in DOMAIN state
  /\ state["preprocessing_error"][1] = "DICOM file has no pixel data: {path}"

(***************************************************************************)
(* Properties of the DicomProcessor methods.                               *)
(***************************************************************************)
Returned(op) == pc = "returned" /\ ret.op = op

\* the modality tag shared by every slice of a non-empty study, as an option;
\* None when the tags differ, one is missing or the study is empty
CommonModality(paths) ==
  IF /\ Len(paths) > 0
     /\ \A i \in 1..Len(paths) : paths[i].Modality # None /\ paths[i].Modality = paths[1].Modality
  THEN paths[1].Modality
  ELSE None

\* C5 as claimed: is_relevant=true with modality m exactly when every locator
\* is readable and all carry the same tag m of the allow-list; in every other
\* case is_relevant=false with modality "MIXED".
C5_RelevanceAsClaimed ==
  Returned("ModalityRelevance") =>
    LET m == CommonModality(dicom_path)
    IN IF AllReadable(dicom_path) /\ m # None /\ m[1] \in approved_modality
       THEN ret.dict = [is_relevant |-> TRUE, modality |-> m[1]]
       ELSE ret.dict = [is_relevant |-> FALSE, modality |-> "MIXED"]

\* C5 amended: when some locator is unreadable the answer is is_relevant=false
\* with an error message and no modality; otherwise is_relevant=true with the
\* modality tag m as stored exactly when all slices carry the same tag m and
\* the upper-cased m is in the allow-list; otherwise is_relevant=false with
\* modality "MIXED".
C5_RelevanceFailsClosed ==
  Returned("ModalityRelevance") =>
    LET m == CommonModality(dicom_path)
    IN IF ~AllReadable(dicom_path)
       THEN /\ DOMAIN ret.dict = {"is_relevant", "error"}
            /\ ret.dict["is_relevant"] = FALSE
            /\ ret.dict["error"][1] # ""
       ELSE IF m # None /\ StrUpper(m[1]) \in approved_modality
       THEN ret.dict = [is_relevant |-> TRUE, modality |-> m[1]]
       ELSE ret.dict = [is_relevant |-> FALSE, modality |-> "MIXED"]

C5_Witness ==
  /\ Returned("ModalityRelevance")
  /\ Len(dicom_path) = 3
  /\ ret.dict = [is_relevant |-> TRUE, modality |-> "MR"]

\* C6: guardrail answers is_relevant=true, with the slice count, if and only
\* if at least 5 locators are supplied, every header is readable and all
\* slices share one non-null series UID; otherwise it answers
\* is_relevant=false with a non-empty stop_reason.
C6_GuardrailIff ==
  Returned("guardrail") =>
    LET n == Len(dicom_path)
        valid == /\ n >= 5
                 /\ AllReadable(dicom_path)
                 /\ \A i \in 1..n : /\ dicom_path[i].SeriesInstanceUID # None
                                    /\ dicom_path[i].SeriesInstanceUID = dicom_path[1].SeriesInstanceUID
    IN IF valid
       THEN ret.dict = [is_relevant |-> TRUE, slice_count |-> n]
       ELSE /\ DOMAIN ret.dict = {"is_relevant", "stop_reason"}
            /\ ret.dict["is_relevant"] = FALSE
            /\ ret.dict["stop_reason"][1] # ""

C6_Witness ==
  /\ Returned("guardrail")
  /\ Len(dicom_path) = 5
  /\ ret.dict = [is_relevant |-> TRUE, slice_count |-> 5]

Built == Returned("Image_extractor_3D") /\ "locals" \in DOMAIN ret

\* C7: build_volume stacks the slices in non-decreasing order of their
\* position key with a stable sort: the stacked order is a permutation of the
\* input, keys never decrease along it, and slices with equal keys keep their
\* input order.
C7_StableSortByPosition ==
  Built =>
    LET n == Len(dicom_path)
        order == ret.locals.order
        key(i) == slice_position(dicom_path[i], i - 1)
    IN /\ Len(order) = n
       /\ {order[i] : i \in 1..n} = 1..n
       /\ \A i, j \in 1..n :
            i < j => \/ key(order[i]) < key(order[j])
                     \/ key(order[i]) = key(order[j]) /\ order[i] < order[j]
       /\ ret.locals.volume = [i \in 1..n |-> dicom_path[order[i]].pixel_array]

C7_Witness ==
  /\ Built
  /\ Len(dicom_path) = 4
  /\ [i \in 1..4 |-> dicom_path[i].ImagePositionPatient] = <<Some(3), Some(1), Some(2), Some(1)>>
  /\ ret.locals.order = <<2, 4, 3, 1>>

\* the window embedded in the first slice, when both tags are present
EmbeddedWindow(dcm) ==
  IF dcm.WindowCenter # None /\ dcm.WindowWidth # None
  THEN Some(<<dcm.WindowCenter[1].vals[1], dcm.WindowWidth[1].vals[1]>>)
  ELSE None

WindowApplied == <<ret.locals.window_used[1].center, ret.locals.window_used[1].width>>

\* C8 as claimed: the window applied to a CT volume is the custom window if
\* given, else the named preset if given, else the DICOM-embedded window if
\* present, else the preset inferred from body part or description, else the
\* soft-tissue default.
C8_WindowPriorityAsClaimed ==
  Built /\ ret.locals.window_used # None =>
    WindowApplied =
      IF args.custom_window # None THEN args.custom_window[1]
      ELSE IF args.ct_window # None /\ args.ct_window[1] \in DOMAIN CT_WINDOWS
      THEN CT_WINDOWS[args.ct_window[1]]
      ELSE IF EmbeddedWindow(dicom_path[1]) # None THEN EmbeddedWindow(dicom_path[1])[1]
      ELSE CT_WINDOWS[ExtractCTWindowSettings(dicom_path).dict.suggested_window[1]]

\* C8 amended: the same priority holds when auto_window is true (its default);
\* when auto_window is false and neither a custom window nor a known preset
\* is given, the soft-tissue default is applied whatever the file embeds.
C8_WindowPriority ==
  Built /\ ret.locals.window_used # None =>
    WindowApplied =
      IF args.custom_window # None THEN args.custom_window[1]
      ELSE IF args.ct_window # None /\ args.ct_window[1] \in DOMAIN CT_WINDOWS
      THEN CT_WINDOWS[args.ct_window[1]]
      ELSE IF ~args.auto_window THEN CT_WINDOWS["soft_tissue"]
      ELSE IF EmbeddedWindow(dicom_path[1]) # None THEN EmbeddedWindow(dicom_path[1])[1]
      ELSE CT_WINDOWS[ExtractCTWindowSettings(dicom_path).dict.suggested_window[1]]

C8_Witness ==
  /\ Built
  /\ args.custom_window = None /\ args.ct_window = Some("bogus") /\ args.auto_window
  /\ dicom_path[1].BodyPartExamined = Some("CHEST")
  /\ ret.locals.window_used = Some([type |-> "dicom", center |-> 50, width |-> 350,
                                    body_part |-> Some("CHEST")])

\* C9: CT windowing with centre c and width w maps every HU value v to
\* (clip(v, c-w/2, c+w/2) - (c-w/2)) / w: a value at or below c-w/2 maps to 0,
\* a value at or above c+w/2 maps to 1, and the map is non-decreasing in v.
C9_WindowingClipAffine ==
  Built /\ ret.locals.window_used # None =>
    LET volume == ret.locals.volume
        out == ret.locals.volume_normalized
        slope == Getattr(dicom_path[1], "RescaleSlope", 1)
        intercept == Getattr(dicom_path[1], "RescaleIntercept", 0)
        hu(d, k) == volume[d][k] * slope + intercept
        c == WindowApplied[1]
        w == WindowApplied[2]
        voxels == {<<d, k>> : d \in 1..Len(volume), k \in 1..Len(volume[1])}
    IN /\ \A v \in voxels :
            LET x == hu(v[1], v[2])
                y == out[v[1]][v[2]]
            IN /\ IsFinite(y)
               /\ 2 * x <= 2 * c - w => y[1] = 0
               /\ 2 * x >= 2 * c + w => y[1] = y[2]
               /\ 2 * c - w < 2 * x /\ 2 * x < 2 * c + w =>
                    y[1] * 2 * w = (2 * x - (2 * c - w)) * y[2]
       /\ \A u, v \in voxels :
            hu(u[1], u[2]) <= hu(v[1], v[2]) => RatLe(out[u[1]][u[2]], out[v[1]][v[2]])

\* C10: in every volume build_volume emits, on every modality branch, each
\* value after intensity mapping lies in [0,1]; coincident MRI percentiles and
\* a constant volume on the unknown branch give a uniformly zero volume.
C10_NormalizedInUnitInterval ==
  Built =>
    LET volume == ret.locals.volume
        out == ret.locals.volume_normalized
        modality == ret.dict["modality"]
        voxels == {<<d, k>> : d \in 1..Len(volume), k \in 1..Len(volume[1])}
        constant == \A u, v \in voxels : volume[u[1]][u[2]] = volume[v[1]][v[2]]
        degenerate ==
          \/ modality = "MR" /\ (constant \/ args.mri_percentiles[1] = args.mri_percentiles[2])
          \/ modality \notin {"CT", "MR"} /\ constant
    IN /\ \A v \in voxels : InUnitInterval(out[v[1]][v[2]])
       /\ degenerate => \A v \in voxels : out[v[1]][v[2]][1] = 0

\* C11: when the stack handed to depth resampling has exactly target_depth
\* slices, the resampled stack is that stack: the same number of slices and
\* voxels, and every voxel value unchanged.
C11_ResampleIdentityAtEqualDepth ==
  Built /\ Len(ret.locals.volume_resized) = args.target_depth =>
    LET volume_resized == ret.locals.volume_resized
        volume_resampled == ret.locals.volume_resampled
    IN /\ Len(volume_resampled) = Len(volume_resized)
       /\ \A d \in 1..Len(volume_resized) :
            /\ Len(volume_resampled[d]) = Len(volume_resized[d])
            /\ \A k \in 1..Len(volume_resized[d]) :
                 RatEq(volume_resampled[d][k], <<volume_resized[d][k], 255>>)

C11_Witness ==
  /\ Built
  /\ args.target_depth = 2
  /\ Len(ret.locals.volume_resized) = 2
  /\ ret.locals.volume_resized[1] # ret.locals.volume_resized[2]
  /\ ret.locals.volume_resampled[2][1][1] # 0

\* a study all of whose slices read, carry the same planar modality tag and
\* hold decodable pixels
PlanarStudy(paths) ==
  /\ Len(paths) > 0
  /\ ReadLoopError(paths) = None
  /\ \E m \in {"CR", "DX"} : \A i \in 1..Len(paths) : paths[i].Modality = Some(m)

\* C12: a run on a relevant CR/DX study of n decodable slices never executes
\* the guardrail, does not end by an exception, and at its terminal node the
\* result carries n finding-sets, the i-th being the presenter's answer for
\* the tensor of the i-th slice.
C12_PlanarPathCompletes ==
  PlanarStudy(dicom_path) =>
    /\ ~Executed("cmg")
    /\ pc # "RAISED"
    /\ pc = "END" =>
         LET n == Len(dicom_path)
             out == extract_output(state)
         IN /\ Get(state, "image_tensor") # None
            /\ Len(state["image_tensor"][1]) = n
            /\ \A i \in 1..n :
                 \E nan_cast \in NanCastOutcomes :
                   state["image_tensor"][1][i] = PlanarTensor(dicom_path[i], nan_cast)
            /\ "findings" \in DOMAIN out
            /\ Len(out["findings"][1]) = n
            /\ \A i \in 1..n :
                 /\ out["findings"][1][i].positive_findings
                      = state["model_predictions"][1][i].positive_findings
                 /\ out["findings"][1][i].top_predictions
                      = state["model_predictions"][1][i].top_predictions

\* the list F holds every element of the list L once, in the order of their
\* first appearance in L
FirstAppearances(F, L) ==
  LET first(x) == Min({i \in 1..Len(L) : L[i] = x})
  IN /\ {F[i] : i \in 1..Len(F)} = {L[i] : i \in 1..Len(L)}
     /\ \A i, j \in 1..Len(F) : i < j => first(F[i]) < first(F[j])

\* the finding lists handed to RAGPipeline.generate_recommendations so far
FindingsPassed == {c[2] : c \in {d \in calls : d[1] = "generate_recommendations"}}

RagAsked == \E c \in calls : c[1] \in {"get_rag_pipeline", "generate_recommendations"}

\* C13: once the recommendation stage has run on inference outputs, what it
\* handed to the recommendation pipeline (and reports as findings) is the
\* positive findings of all outputs, each once, in order of first appearance;
\* the first three top predictions of every output are used instead exactly
\* when no output has a positive finding; and when there is neither, the
\* pipeline is not asked, the recommendation is null and the run has ended
\* with finding-sets that are all empty.
C13_FindingsPassedToRecommender ==
  Executed("rag") /\ Get(state, "model_predictions") # None =>
    LET predictions == state["model_predictions"][1]
        positives == Concat([i \in 1..Len(predictions) |-> predictions[i].positive_findings])
        source == IF positives # <<>> THEN positives ELSE TopThree(predictions)
    IN IF source = <<>>
       THEN /\ ~RagAsked
            /\ state["clinical_recommendations"] = None
            /\ pc = "END"
            /\ \A i \in 1..Len(predictions) :
                 extract_output(state)["findings"][1][i]
                   = [positive_findings |-> <<>>, top_predictions |-> <<>>]
       ELSE /\ RagAsked
            /\ \A F \in FindingsPassed : FirstAppearances(F, source)
            /\ state["clinical_recommendations"] # None
            /\ FirstAppearances(state["clinical_recommendations"][1].findings, source)

C13_Witness ==
  /\ Executed("rag")
  /\ Get(state, "model_predictions") # None
  /\ Len(state["model_predictions"][1]) = 3
  /\ state["model_predictions"][1][1].positive_findings = <<"Mass">>
  /\ state["model_predictions"][1][2].positive_findings = <<"Edema", "Mass">>
  /\ FindingsPassed = {<<"Mass", "Edema">>}

C13_WitnessFallback ==
  /\ Executed("rag")
  /\ Get(state, "model_predictions") # None
  /\ FindingsPassed = {<<"Mass", "Edema", "Nodule">>}

\* the recommendation record of a run whose recommendation stage asked for
\* the pipeline
Recs == state["clinical_recommendations"][1]

\* the recommender failed: no pipeline, an exception out of
\* generate_recommendations, or the text generator failing on every retry
RecommenderFailed ==
  /\ Executed("rag") /\ RagAsked
  /\ "error" \in DOMAIN Recs \/ Recs.recommendations = "fallback_report"

FindingsIntact ==
  /\ Recs.findings = unique_findings(state["model_predictions"][1])
  /\ extract_output(state)["findings"][1]
       = [i \in 1..Len(state["model_predictions"][1]) |->
            [positive_findings |-> state["model_predictions"][1][i].positive_findings,
             top_predictions |-> state["model_predictions"][1][i].top_predictions]]

Rejected ==
  /\ pc = "END" /\ ~Executed("rag")
  /\ "is_relevant" \in DOMAIN state /\ state["is_relevant"] = FALSE

Failed == pc = "END" /\ Executed("rag") /\ Get(state, "model_predictions") = None

Completed == pc = "END" /\ Executed("rag") /\ Get(state, "model_predictions") # None

\* the texts of the reason messages a terminal state carries
Reasons ==
  {state[k][1] : k \in DOMAIN state \cap {"error", "stop_reason", "preprocessing_error"}}

\* C15: the terminal state of every run that ends rejected or failed holds a
\* non-empty reason string.
C15_RejectedOrFailedCarriesReason ==
  Rejected \/ Failed => \E r \in Reasons : r # ""

Responded == ret.op = "analyze_dicom"

\* C16: the response handed to the caller, and the statuses recorded with
\* it, say completed only for a run in which inference produced outputs; a
\* study rejected by intake or the guardrail, or failed in preprocessing or
\* inference, is neither reported nor recorded as completed.
C16_StatusMatchesPath ==
  Responded =>
    /\ ret.status = "completed" <=> Completed
    /\ ret.study_status = "completed" <=> Completed
    /\ ret.result_status = Some("completed") <=> Completed

\* C17: whatever the interleaving of the callers, at most one CTMRIPresenter
\* is constructed, each of its two models is built at most once, and the
\* callers that have returned hold the same presenter and, for the same
\* modality, the same model.
C17_SingletonsInitializedOnce ==
  /\ Cardinality({t \in Callers : instances[t] # None}) <= 1
  /\ \A m \in {"CT", "MR"} :
       Cardinality({t \in Callers : callers[t].modality = m /\ callers[t].built}) <= 1
  /\ \A t, u \in Callers :
       /\ callers[t].presenter # None /\ callers[u].presenter # None
            => callers[t].presenter = callers[u].presenter
       /\ callers[t].pc = "done" /\ callers[u].pc = "done"
            /\ callers[t].modality = callers[u].modality
            => callers[t].model = callers[u].model

\* the requests up to the i-th, it included, that fall in the 300 seconds
\* ending with the i-th request and were answered with one of the statuses
InWindow(i, statuses) ==
  {j \in 1..i : /\ responses[i].time - responses[j].time < window_seconds
                /\ responses[j].status \in statuses}

ChainKey(i) ==
  LET dcm == dicom_path[i]
  IN CASE dcm.ImagePositionPatient # None -> dcm.ImagePositionPatient[1]
       [] dcm.ImagePositionPatient = None /\ dcm.SliceLocation # None -> dcm.SliceLocation[1]
       [] dcm.ImagePositionPatient = None /\ dcm.SliceLocation = None
            /\ dcm.InstanceNumber # None -> dcm.InstanceNumber[1]
       [] OTHER -> i - 1

HintMatched(dcm) ==
  \/ /\ dcm.BodyPartExamined # None
     /\ dcm.BodyPartExamined[1] # ""
     /\ StrStrip(StrUpper(dcm.BodyPartExamined[1])) \in DOMAIN BODY_PART_TO_WINDOW
  \/ KeywordsIn(StrUpper(Getattr(dcm, "StudyDescription", ""))) # {}
  \/ KeywordsIn(StrUpper(Getattr(dcm, "SeriesDescription", ""))) # {}

Override ==
  \/ args.custom_window # None
  \/ args.ct_window # None /\ args.ct_window[1] \in DOMAIN CT_WINDOWS

\* C20: the window reported with a CT volume names the tier that supplied
\* it: custom and preset for the caller's overrides, dicom only for an
\* embedded window, inferred only when a body-part tag or a description
\* keyword matched (BodyPartExamined "CHEST" without an embedded window gives
\* inferred with centre -600 and width 1500), and default whenever there is
\* no override, no embedded window and no matching hint.
C20_WindowSourceTier ==
  Built /\ ret.locals.window_used # None =>
    LET w == ret.locals.window_used[1]
        dcm == dicom_path[1]
    IN /\ args.custom_window # None => w.type = "custom"
       /\ args.custom_window = None /\ Override => w.type = "preset"
       /\ w.type = "dicom" => ~Override /\ EmbeddedWindow(dcm) # None
       /\ w.type = "inferred" => ~Override /\ EmbeddedWindow(dcm) = None /\ HintMatched(dcm)
       /\ ~Override /\ EmbeddedWindow(dcm) = None /\ ~HintMatched(dcm) => w.type = "default"
       /\ ~Override /\ args.auto_window /\ EmbeddedWindow(dcm) = None
            /\ dcm.BodyPartExamined = Some("CHEST")
            => w.type = "inferred" /\ w.center = -600 /\ w.width = 1500

\* the preset the static table gives for a body-part tag: the table entry of
\* the upper-cased, stripped tag, soft_tissue for a tag the table lacks
TablePreset(body_part) ==
  LET key == StrStrip(StrUpper(body_part))
  IN IF key \in DOMAIN BODY_PART_TO_WINDOW THEN BODY_PART_TO_WINDOW[key] ELSE "soft_tissue"

\* C21: whenever the first slice carries a BodyPartExamined tag, the suggested
\* preset is the one the static table gives for it (soft_tissue for a body
\* part the table lacks), whatever the study and series descriptions say; the
\* description keywords decide only when the tag is absent.
C21_BodyPartTableWhenPresent ==
  Returned("ExtractCTWindowSettings") /\ ~ret.raised /\ "suggested_window" \in DOMAIN ret.dict =>
    LET dcm == dicom_path[1]
    IN dcm.BodyPartExamined # None =>
         ret.dict["suggested_window"] = Some(TablePreset(dcm.BodyPartExamined[1]))

\* the slices whose header reads but whose pixel data is missing or cannot be
\* decoded
BadPixelSlices(paths) ==
  {i \in 1..Len(paths) : paths[i].read = "ok" /\ paths[i].PixelData # "present"}

\* C22: when some slice declares no pixel data or has pixel data that cannot
\* be decoded, build_volume does not raise, returns an error and no volume
\* tensor even when every other slice is good, and the error names the slice
\* that failed.
C22_BadSliceAbortsNamingSlice ==
  Returned("Image_extractor_3D") /\ BadPixelSlices(dicom_path) # {} =>
    /\ ~ret.raised
    /\ DOMAIN ret.dict = {"error"}
    /\ ret.dict["error"][1] # ""
    /\ \/ ret.dict["error"][2] \in BadPixelSlices(dicom_path)
       \/ \E i \in 1..Len(dicom_path) :
            dicom_path[i].read # "ok" /\ i < Min(BadPixelSlices(dicom_path))

\* the batch with every slice but slice i replaced by another decodable slice
OthersReplaced(paths, i, other) == [j \in 1..Len(paths) |-> IF j = i THEN paths[j] ELSE other]

\* C23: the planar path gives one tensor per input slice, in input order, and
\* the tensor of slice i is what the slice gives when it is processed alone:
\* replacing the other slices of the batch by other decodable slices leaves
\* the tensor of slice i unchanged.
C23_PlanarSlicesIndependent ==
  Returned("Image_extractor") /\ "image_tensor" \in DOMAIN ret.dict =>
    LET tensors == ret.dict["image_tensor"][1]
        n == Len(dicom_path)
    IN /\ Len(tensors) = n
       /\ \A i \in 1..n :
            /\ tensors[i] = Image_extractor(<<dicom_path[i]>>, 0)["image_tensor"][1][1]
            /\ \A other \in XraySlices :
                 Image_extractor(OthersReplaced(dicom_path, i, other), 0)["image_tensor"][1][i]
                   = tensors[i]

C23_Witness ==
  /\ Returned("Image_extractor")
  /\ "image_tensor" \in DOMAIN ret.dict
  /\ Len(dicom_path) = 3
  /\ dicom_path[1].PhotometricInterpretation = Some("MONOCHROME1")
  /\ dicom_path[2].PhotometricInterpretation = None
  /\ dicom_path[2].pixel_array = dicom_path[1].pixel_array
  /\ ret.dict["image_tensor"][1][1] # ret.dict["image_tensor"][1][2]

\* the depth profile of voxel k before and after depth resampling
ProfileBefore(k) ==
  [d \in 1..Len(ret.locals.volume_resized) |-> <<ret.locals.volume_resized[d][k], 255>>]

ProfileAfter(k) ==
  [j \in 1..Len(ret.locals.volume_resampled) |-> ret.locals.volume_resampled[j][k]]

\* each value at most (at least) the next one
NonDecreasing(profile) ==
  \A a \in 1..(Len(profile) - 1) : RatLe(profile[a], profile[a + 1])

NonIncreasing(profile) ==
  \A a \in 1..(Len(profile) - 1) : RatLe(profile[a + 1], profile[a])

\* the real slices on either side of output slice j of target_depth, when
\* current_depth slices are resampled at evenly spaced positions
NeighbourSlices(j, current_depth, target_depth) ==
  IF target_depth = 1 THEN <<1, 1>>
  ELSE LET x == (j - 1) * (current_depth - 1)
           below == x \div (target_depth - 1)
       IN IF x % (target_depth - 1) = 0 THEN <<below + 1, below + 1>>
          ELSE <<below + 1, below + 2>>

\* C24: when the stack is resampled to a target depth different from its
\* slice count, a voxel whose profile along depth is non-decreasing (or
\* non-increasing, or constant) over the input slices has a non-decreasing
\* (non-increasing, constant) resampled profile, and every resampled value
\* lies between the values of the two real slices on either side of it.
C24_ResamplePreservesMonotonicity ==
  Built /\ Len(ret.locals.volume_resized) # args.target_depth =>
    LET current_depth == Len(ret.locals.volume_resized)
        target_depth == args.target_depth
    IN /\ Len(ret.locals.volume_resampled) = target_depth
       /\ \A k \in 1..Len(ret.locals.volume_resized[1]) :
            LET before == ProfileBefore(k)
                after == ProfileAfter(k)
            IN /\ NonDecreasing(before) => NonDecreasing(after)
               /\ NonIncreasing(before) => NonIncreasing(after)
               /\ \A j \in 1..target_depth :
                    LET nb == NeighbourSlices(j, current_depth, target_depth)
                        lo == before[nb[1]]
                        hi == before[nb[2]]
                    IN \/ RatLe(lo, after[j]) /\ RatLe(after[j], hi)
                       \/ RatLe(hi, after[j]) /\ RatLe(after[j], lo)

C24_Witness ==
  /\ Built
  /\ Len(ret.locals.volume_resized) = 3
  /\ args.target_depth = 5
  /\ ProfileBefore(1) = << <<0, 255>>, <<127, 255>>, <<255, 255>> >>
  /\ RatEq(ProfileAfter(1)[2], <<127, 510>>)
  /\ RatEq(ProfileAfter(1)[4], <<382, 510>>)

\* the constants added to every voxel
Offsets == {-7, -1, 3, 1000}

\* C25: normalising an MRI volume with a constant added to every voxel gives
\* the same [0,1] values as normalising the volume itself, for every
\* percentile pair.
C25_MriNormalizationShiftInvariant ==
  Built /\ ret.dict["modality"] = "MR" =>
    LET volume == ret.locals.volume
        out == ret.locals.volume_normalized
    IN \A offset \in Offsets :
         LET shifted == [d \in 1..Len(volume) |-> [k \in 1..Len(volume[d]) |->
                           volume[d][k] + offset]]
             out_shifted == _apply_mri_normalization(shifted, args.mri_percentiles[1],
                                                     args.mri_percentiles[2])
         IN \A d \in 1..Len(volume) : \A k \in 1..Len(volume[d]) :
              /\ InUnitInterval(out[d][k])
              /\ RatEq(out_shifted[d][k], out[d][k])

C25_Witness ==
  /\ Built
  /\ ret.dict["modality"] = "MR"
  /\ args.mri_percentiles = <<1, 99>>
  /\ ret.locals.volume = << <<-1, 0>>, <<2, 2>> >>
  /\ \E d, k \in 1..2 : LET y == ret.locals.volume_normalized[d][k]
                        IN 0 < y[1] /\ y[1] < y[2]

\* the fields that signal an error or a rejection
ErrorMarkers == {"error", "preprocessing_error", "stop_reason"}

\* the fields each stage of the graph owns, error markers apart
Owned(node) ==
  CASE node = "rg" -> {"is_relevant", "modality", "dicom_metadata"}
    [] node = "cmg" -> {}
    [] node \in {"px", "tf"} -> {"image_tensor", "volume_tensor"}
    [] node \in {"xvm", "ctvm"} -> {"model_predictions", "gradcam_heatmaps"}
    [] node = "rag" -> {"clinical_recommendations"}
    [] OTHER -> {}

\* C26 as claimed: along a run every field a stage has written keeps its
\* value through every later stage, error markers apart, and the fields a
\* stage adds are its own or error markers.
C26_StateOnlyGrows ==
  [][ /\ \A f \in DOMAIN state \ ErrorMarkers :
           f \in DOMAIN state' /\ state'[f] = state[f]
      /\ DOMAIN state' \ DOMAIN state \subseteq Owned(pc) \cup ErrorMarkers ]_vars

\* C26 amended: the same, except that the guardrail, when it rejects the
\* series, sets is_relevant (written by intake) to false together with its
\* stop_reason.
C26_StateGrowsButForGuardrailVerdict ==
  [][ /\ \A f \in DOMAIN state \ ErrorMarkers :
           /\ f \in DOMAIN state'
           /\ \/ state'[f] = state[f]
              \/ /\ f = "is_relevant"
                 /\ pc = "cmg"
                 /\ state'[f] = FALSE
                 /\ "stop_reason" \in DOMAIN state'
      /\ DOMAIN state' \ DOMAIN state \subseteq Owned(pc) \cup ErrorMarkers ]_vars

C26_Witness ==
  /\ pc = "END"
  /\ executed = <<"rg", "cmg", "tf", "ctvm", "rag">>
  /\ {"is_relevant", "modality", "volume_tensor", "model_predictions",
      "clinical_recommendations"} \subseteq DOMAIN state
  /\ state["is_relevant"] = TRUE
  /\ state["volume_tensor"] # None
  /\ state["clinical_recommendations"] # None

(***************************************************************************)
(* Properties of generate_recommendations.                                 *)
(***************************************************************************)
\* the positions in the log of the attempts of a collaborator call, and of
\* those that failed
AttemptsOf(call) == {i \in 1..Len(rag.log) : rag.log[i][1] = call}

FailuresOf(call) == {i \in AttemptsOf(call) : rag.log[i][2] = "failed"}

RetriedCalls == {"embeddings.create", "chat.completions.create"}

\* at most 3 attempts, none after a success, and a wait of 1, 2, ... seconds
\* (doubling) after every failed attempt but the last, and nowhere else
RetriedWithBackoff(call) ==
  /\ Cardinality(AttemptsOf(call)) <= 3
  /\ \A i, j \in AttemptsOf(call) : rag.log[i][2] = "ok" => j <= i
  /\ \A i \in FailuresOf(call) :
       LET k == Cardinality({j \in FailuresOf(call) : j <= i})
       IN IF k < 3
          THEN i < Len(rag.log) /\ rag.log[i + 1] = <<"sleep", 2 ^ (k - 1)>>
          ELSE i = Len(rag.log)
  /\ \A i \in 1..Len(rag.log) :
       rag.log[i][1] = "sleep" => i > 1 /\ rag.log[i - 1][2] = "failed"

\* generate_recommendations returned the fallback report built from its findings
DegradedToFallback ==
  /\ rag.pc = "returned"
  /\ rag.result # None
  /\ rag.result[1].findings = rag.findings
  /\ rag.result[1].recommendations = _generate_fallback_report(rag.findings)

\* C27: the query embedding and the chat completion are each attempted at
\* most 3 times, with waits that double between failed attempts, and never
\* again after a success; when the third attempt of either fails,
\* generate_recommendations returns the fallback report built from the
\* findings instead of raising.
C27_RetryThenFallback ==
  rag.pc # "off" =>
    \A call \in RetriedCalls :
      /\ RetriedWithBackoff(call)
      /\ Cardinality(FailuresOf(call)) = 3 => DegradedToFallback

\* C28: whatever ModalityRelevance answers is routable: with is_relevant=true
\* router1 selects the planar path or the volumetric guardrail, with
\* is_relevant=false it selects the terminal, and it never answers anything
\* else (nor nothing at all).
C28_IntakeAnswerRoutable ==
  Returned("ModalityRelevance") =>
    LET route == router1(ret.dict)
    IN /\ route \in {Some("END"), Some("Xray"), Some("CT/MRI")}
       /\ ret.dict["is_relevant"] = TRUE => route \in {Some("Xray"), Some("CT/MRI")}
       /\ ret.dict["is_relevant"] = FALSE => route = Some("END")

\* the study with the rescale tags of slice j replaced
WithRescale(paths, j, tags) ==
  [paths EXCEPT ![j] = [@ EXCEPT !.RescaleSlope = tags[1], !.RescaleIntercept = tags[2]]]

\* C29: build_volume reports the modality tag of the first locator read, and
\* on a CT stack it applies the rescale slope and intercept of that locator
\* to every voxel, wherever the sort puts that slice: the windowed values are
\* those of voxel * slope + intercept, and they do not change when the
\* rescale tags of any other slice are replaced.
C29_RescaleFromFirstLocator ==
  Built =>
    /\ ret.dict["modality"] = Getattr(dicom_path[1], "Modality", "UNKNOWN")
    /\ ret.dict["modality"] = "CT" =>
         LET volume == ret.locals.volume
             out == ret.locals.volume_normalized
             slope == Getattr(dicom_path[1], "RescaleSlope", 1)
             intercept == Getattr(dicom_path[1], "RescaleIntercept", 0)
             c == WindowApplied[1]
             w == WindowApplied[2]
         IN /\ \A d \in 1..Len(volume) : \A k \in 1..Len(volume[d]) :
                 out[d][k] = Div(NpClip(2 * (volume[d][k] * slope + intercept),
                                        2 * c - w, 2 * c + w) - (2 * c - w),
                                 2 * w)
            /\ \A j \in 2..Len(dicom_path), tags \in RescaleTags :
                 Image_extractor_3D(WithRescale(dicom_path, j, tags), args.target_depth,
                                    args.ct_window, args.custom_window, args.mri_percentiles,
                                    args.auto_window, 0).locals.volume_normalized = out

C29_Witness ==
  /\ Built
  /\ Len(dicom_path) = 3
  /\ dicom_path[1].RescaleSlope = Some(2) /\ dicom_path[1].RescaleIntercept = Some(-1)
  /\ dicom_path[2].RescaleSlope = Some(3)
  /\ dicom_path[3].RescaleSlope = None
  /\ ret.locals.order = <<2, 3, 1>>
  /\ ret.locals.volume_normalized[3][2] = <<2 * (10 * 2 - 1) + 320, 800>>

(***************************************************************************)
(* Properties of the shared X-ray presenter.                               *)
(***************************************************************************)
\* C30: under every interleaving, a thread that has received the pair of
\* _get_model_and_gradcam never holds a loaded model together with a missing
\* Grad-CAM object.
C30_ModelNeverWithoutGradcam ==
  \A t \in Callers :
    xray_callers[t].pc \in {"received", "done", "raised"} /\ xray_callers[t].model # None
      => xray_callers[t].gradcam # None

====
